---- MODULE Spec2Model ----
(***************************************************************************)
(* git-pair: per-branch co-author ledgers and the prepare-commit-msg hook  *)
(* whose "# BEGIN git-pair" .. "# END git-pair" section the tool owns.     *)
(*                                                                         *)
(* Text is a sequence of pieces.  In a hook file a piece is a whitespace   *)
(* character, a character of user text, or one of the fixed literals of    *)
(* src/src/lib.rs (the two markers, the shebang, the generated body); no   *)
(* concatenation of the other pieces spells a marker, so searching for a   *)
(* marker piece is searching for the marker text.  In a ledger a piece is  *)
(* a character or a header literal.                                        *)
(*                                                                         *)
(* Ten specifications:                                                     *)
(*   Spec      the store's commands init, add, remove and clear, and the   *)
(*             user's checkouts, on every short user hook file             *)
(*   SpecAdds  init, add and checkout only, from a hook without marker     *)
(*   SpecLedger  the store's commands and list, with a co-author whose     *)
(*             record line holds another's, from one of two hook files     *)
(*   SpecHook  install_git_hook_in and remove_git_hook_in on every hook    *)
(*             file of at most MaxHookLen pieces                           *)
(*   SpecCommit  the installed section run by git on a commit message      *)
(*   SpecRoster  the global roster and the commands that go through it     *)
(*   SpecEnv   the commands without .git or without a resolvable branch    *)
(*   SpecMatch  add and remove with names in capital Greek letters and     *)
(*             identifiers in either case                                  *)
(*   SpecBranches  the store's commands on branches whose names differ     *)
(*             but whose ledger file is the same                           *)
(*   SpecRace  two add_coauthor calls at the same time, each in the steps  *)
(*             of its reads and writes                                     *)
(* File-system failures (IoError) are not modelled: every read and write   *)
(* succeeds.                                                               *)
(***************************************************************************)
EXTENDS Integers, Sequences, FiniteSets, TLC

VARIABLES hook, prevHook, ledger, prevLedger, branch, roster, last, arg, named,
          listed, records, message, rosterFile, repo, adders, torn

vars == <<hook, prevHook, ledger, prevLedger, branch, roster, last, arg, named,
          listed, records, message, rosterFile, repo, adders, torn>>

-----------------------------------------------------------------------------
(* Bounds                                                                  *)

\* longest initial hook file of the installer specification, in pieces
MaxHookLen == 4
\* longest initial hook file of the store specification, in pieces
MaxStoreHookLen == 2
\* most entries the roster commands put into the roster file
MaxRosterLen == 2
\* a command is run only on a hook file of at most this many pieces: a hook
\* file whose end marker precedes its begin marker grows at every command
MaxFileLen == 20

-----------------------------------------------------------------------------
(* Literals of the source                                                  *)

NL == "\n"
SP == " "
BEGIN_MARKER == <<"# BEGIN git-pair">>
END_MARKER == <<"# END git-pair">>
SHEBANG == "#!/bin/sh"
\* line 577 of the generated section, a comment line
HOOK_COMMENT == "# git-pair hook to automatically add co-authors"
\* lines 579-600 of the generated section: shell code, no marker in it
HOOK_SCRIPT == "COMMIT_MSG_FILE=$1 ... fi"

\* the raw string literal handed to merge_git_pair_section
git_pair_section ==
    BEGIN_MARKER \o <<NL, HOOK_COMMENT, NL, NL, HOOK_SCRIPT, NL>> \o END_MARKER

\* pieces of text a user's hook file is made of
HookPieces == {BEGIN_MARKER[1], END_MARKER[1], SHEBANG, NL, SP, "#", "x"}

\* char::is_whitespace
IsWhitespace(c) == c \in {NL, SP}

\* the pieces whose text begins with '#'
StartsWithHash(c) == c \in {"#", SHEBANG, HOOK_COMMENT, BEGIN_MARKER[1], END_MARKER[1]}

-----------------------------------------------------------------------------
(* str helpers                                                             *)

\* str::find: the 1-based index of the first occurrence of pat, 0 for None
Find(s, pat) ==
    LET hits == {i \in 1..(Len(s) - Len(pat) + 1) : SubSeq(s, i, i + Len(pat) - 1) = pat}
    IN  IF hits = {} THEN 0 ELSE CHOOSE i \in hits : \A j \in hits : i <= j

\* str::contains
Contains(s, pat) == Find(s, pat) # 0

\* str::starts_with
StartsWith(s, pat) == Len(s) >= Len(pat) /\ SubSeq(s, 1, Len(pat)) = pat

\* str::trim_end
TrimEnd(s) ==
    LET keep == {i \in 1..Len(s) : ~IsWhitespace(s[i])}
    IN  IF keep = {} THEN <<>>
        ELSE SubSeq(s, 1, CHOOSE i \in keep : \A j \in keep : j <= i)

\* str::trim_start
TrimStart(s) ==
    LET keep == {i \in 1..Len(s) : ~IsWhitespace(s[i])}
    IN  IF keep = {} THEN <<>>
        ELSE SubSeq(s, CHOOSE i \in keep : \A j \in keep : i <= j, Len(s))

\* str::trim
Trim(s) == TrimStart(TrimEnd(s))

\* str::lines: split at every "\n"; a final line with no terminator counts
\* when it is not empty
RECURSIVE Lines(_)
Lines(s) ==
    IF s = <<>> THEN <<>>
    ELSE LET n == Find(s, <<NL>>)
         IN  IF n = 0 THEN <<s>>
             ELSE <<SubSeq(s, 1, n - 1)>> \o Lines(SubSeq(s, n + 1, Len(s)))

-----------------------------------------------------------------------------
(* Marker-delimited section editor                                         *)

\* is_effectively_empty without the trim of line 453
is_effectively_empty_untrimmed(content) ==
    \A k \in 1..Len(Lines(content)) :
        LET line == Lines(content)[k]
        IN  line = <<>> \/ StartsWithHash(line[1])

\* is_effectively_empty
is_effectively_empty(content) ==
    \A k \in 1..Len(Lines(content)) :
        LET trimmed == Trim(Lines(content)[k])
        IN  trimmed = <<>> \/ StartsWithHash(trimmed[1])

\* merge_replace_existing with lines 494-497 left out: the text after the
\* end marker is not put back
merge_replace_existing_drops_after(existing_content, section, begin_pos, end_pos) ==
    LET before_trimmed == TrimEnd(SubSeq(existing_content, 1, begin_pos - 1))
        r1 == IF before_trimmed = <<>> /\ ~StartsWith(existing_content, <<SHEBANG>>)
              THEN <<SHEBANG, NL>> ELSE <<>>
        r2 == IF before_trimmed # <<>> THEN r1 \o before_trimmed \o <<NL>> ELSE r1
    IN  r2 \o section

\* merge_replace_existing without the trim_end of line 477: the text before
\* the begin marker is put back with its trailing whitespace
merge_replace_existing_keeps_blank_lines(existing_content, section, begin_pos, end_pos) ==
    LET before == SubSeq(existing_content, 1, begin_pos - 1)
        after == SubSeq(existing_content, end_pos + Len(END_MARKER), Len(existing_content))
        after_trimmed == TrimStart(after)
        r1 == IF TrimEnd(before) = <<>> /\ ~StartsWith(existing_content, <<SHEBANG>>)
              THEN <<SHEBANG, NL>> ELSE <<>>
        r2 == IF TrimEnd(before) # <<>> THEN r1 \o before \o <<NL>> ELSE r1
        r3 == r2 \o section
    IN  IF after_trimmed # <<>> THEN r3 \o <<NL>> \o after_trimmed ELSE r3

\* lines 472-499 of merge_git_pair_section: the section is replaced
merge_replace_existing(existing_content, section, begin_pos, end_pos) ==
    LET before == SubSeq(existing_content, 1, begin_pos - 1)
        after == SubSeq(existing_content, end_pos + Len(END_MARKER), Len(existing_content))
        before_trimmed == TrimEnd(before)
        after_trimmed == TrimStart(after)
        r1 == IF before_trimmed = <<>> /\ ~StartsWith(existing_content, <<SHEBANG>>)
              THEN <<SHEBANG, NL>> ELSE <<>>
        r2 == IF before_trimmed # <<>> THEN r1 \o before_trimmed \o <<NL>> ELSE r1
        r3 == r2 \o section
    IN  IF after_trimmed # <<>> THEN r3 \o <<NL>> \o after_trimmed ELSE r3

\* merge_append with one newline where line 514 pushes two
merge_append_single_newline(existing_content, section) ==
    IF Trim(existing_content) = <<>>
    THEN <<SHEBANG, NL>> \o section
    ELSE TrimEnd(existing_content) \o <<NL>> \o section

\* lines 504-518 of merge_git_pair_section: the section is appended
merge_append(existing_content, section) ==
    IF Trim(existing_content) = <<>>
    THEN <<SHEBANG, NL>> \o section
    ELSE TrimEnd(existing_content) \o <<NL, NL>> \o section

\* merge_git_pair_section without the search for the section of line 470
merge_git_pair_section_always_appends(existing_content, section) ==
    [ok |-> TRUE, value |-> merge_append(existing_content, section)]

\* merge_git_pair_section: [ok, value]; ok = FALSE is the Err of line 501
merge_git_pair_section(existing_content, section) ==
    LET begin_pos == Find(existing_content, BEGIN_MARKER)
        end_pos == Find(existing_content, END_MARKER)
    IN  IF begin_pos # 0
        THEN IF end_pos # 0
             THEN [ok |-> TRUE,
                   value |-> merge_replace_existing(existing_content, section,
                                                    begin_pos, end_pos)]
             ELSE [ok |-> FALSE, value |-> <<>>]
        ELSE [ok |-> TRUE, value |-> merge_append(existing_content, section)]

\* remove_git_pair_section without the trim_end of line 533
remove_git_pair_section_keeps_blank_lines(content) ==
    LET begin_pos == Find(content, BEGIN_MARKER)
        end_pos == Find(content, END_MARKER)
        before == SubSeq(content, 1, begin_pos - 1)
        after_trimmed == TrimStart(SubSeq(content, end_pos + Len(END_MARKER), Len(content)))
    IN  IF begin_pos # 0 /\ end_pos # 0
        THEN [some |-> TRUE,
              value |-> IF before # <<>> /\ after_trimmed # <<>>
                        THEN before \o <<NL>> \o after_trimmed
                        ELSE before \o after_trimmed]
        ELSE [some |-> FALSE, value |-> <<>>]

\* remove_git_pair_section with a missing end marker taken as "the section
\* runs to the end of the file"
remove_git_pair_section_strips_to_end(content) ==
    LET begin_pos == Find(content, BEGIN_MARKER)
        end_pos == Find(content, END_MARKER)
        before_trimmed == TrimEnd(SubSeq(content, 1, begin_pos - 1))
        after_trimmed ==
            IF end_pos # 0
            THEN TrimStart(SubSeq(content, end_pos + Len(END_MARKER), Len(content)))
            ELSE <<>>
    IN  IF begin_pos # 0
        THEN [some |-> TRUE,
              value |-> IF before_trimmed # <<>> /\ after_trimmed # <<>>
                        THEN before_trimmed \o <<NL>> \o after_trimmed
                        ELSE before_trimmed \o after_trimmed]
        ELSE [some |-> FALSE, value |-> <<>>]

\* remove_git_pair_section without the test of line 540: the newline is
\* pushed after every non-empty text before the section
remove_git_pair_section_always_joins(content) ==
    LET begin_pos == Find(content, BEGIN_MARKER)
        end_pos == Find(content, END_MARKER)
        before_trimmed == TrimEnd(SubSeq(content, 1, begin_pos - 1))
        after_trimmed == TrimStart(SubSeq(content, end_pos + Len(END_MARKER), Len(content)))
    IN  IF begin_pos # 0 /\ end_pos # 0
        THEN [some |-> TRUE,
              value |-> IF before_trimmed # <<>>
                        THEN before_trimmed \o <<NL>> \o after_trimmed
                        ELSE after_trimmed]
        ELSE [some |-> FALSE, value |-> <<>>]

\* remove_git_pair_section: [some, value]; some = FALSE is None
remove_git_pair_section(content) ==
    LET begin_pos == Find(content, BEGIN_MARKER)
        end_pos == Find(content, END_MARKER)
    IN  IF begin_pos # 0
        THEN IF end_pos # 0
             THEN LET before == SubSeq(content, 1, begin_pos - 1)
                      after == SubSeq(content, end_pos + Len(END_MARKER), Len(content))
                      before_trimmed == TrimEnd(before)
                      after_trimmed == TrimStart(after)
                      r1 == IF before_trimmed # <<>>
                            THEN IF after_trimmed # <<>>
                                 THEN before_trimmed \o <<NL>>
                                 ELSE before_trimmed
                            ELSE <<>>
                      r2 == IF after_trimmed # <<>> THEN r1 \o after_trimmed ELSE r1
                  IN  [some |-> TRUE, value |-> r2]
             ELSE [some |-> FALSE, value |-> <<>>]
        ELSE [some |-> FALSE, value |-> <<>>]

-----------------------------------------------------------------------------
(* Hook installer / remover.  A hook file is [exists, content, exec];      *)
(* an absent file is NoHook.                                               *)

NoHook == [exists |-> FALSE, content |-> <<>>, exec |-> FALSE]

\* install_git_hook_in without the set_mode of lines 609-619: the file keeps
\* the mode it had, a new file is not executable
install_git_hook_in_keeps_mode(h) ==
    LET existing_content == IF h.exists THEN h.content ELSE <<>>
        new_content == merge_git_pair_section(existing_content, git_pair_section)
    IN  IF new_content.ok
        THEN [ok |-> TRUE,
              hook |-> [exists |-> TRUE, content |-> new_content.value, exec |-> h.exec]]
        ELSE [ok |-> FALSE, hook |-> h]

\* install_git_hook_in with the file opened for writing before the merge: a
\* merge error leaves it truncated
install_git_hook_in_truncates(h) ==
    LET existing_content == IF h.exists THEN h.content ELSE <<>>
        new_content == merge_git_pair_section(existing_content, git_pair_section)
    IN  IF new_content.ok
        THEN [ok |-> TRUE,
              hook |-> [exists |-> TRUE, content |-> new_content.value, exec |-> TRUE]]
        ELSE [ok |-> FALSE, hook |-> [exists |-> TRUE, content |-> <<>>, exec |-> h.exec]]

\* install_git_hook_in: [ok, hook]; ok = FALSE is the error merge returned,
\* propagated by `?` at line 604 before fs::write
install_git_hook_in(h) ==
    LET existing_content == IF h.exists THEN h.content ELSE <<>>
        new_content == merge_git_pair_section(existing_content, git_pair_section)
    IN  IF new_content.ok
        THEN [ok |-> TRUE,
              hook |-> [exists |-> TRUE, content |-> new_content.value, exec |-> TRUE]]
        ELSE [ok |-> FALSE, hook |-> h]

\* remove_git_hook_in with the emptiness test of line 266 made on the file
\* itself when it holds no section
remove_git_hook_in_deletes_stubs(h) ==
    IF h.exists
    THEN LET new_content == remove_git_pair_section(h.content)
             left == IF new_content.some THEN new_content.value ELSE h.content
         IN  IF is_effectively_empty(left)
             THEN [ok |-> TRUE, hook |-> NoHook]
             ELSE [ok |-> TRUE, hook |-> [h EXCEPT !.content = left]]
    ELSE [ok |-> TRUE, hook |-> h]

\* remove_git_hook_in that deletes the file only when nothing at all is left
remove_git_hook_in_keeps_stubs(h) ==
    IF h.exists
    THEN LET new_content == remove_git_pair_section(h.content)
         IN  IF new_content.some
             THEN IF new_content.value = <<>>
                  THEN [ok |-> TRUE, hook |-> NoHook]
                  ELSE [ok |-> TRUE, hook |-> [h EXCEPT !.content = new_content.value]]
             ELSE [ok |-> TRUE, hook |-> h]
    ELSE [ok |-> TRUE, hook |-> h]

\* remove_git_hook_in: [ok, hook]; it has no error path besides I/O
remove_git_hook_in(h) ==
    IF h.exists
    THEN LET new_content == remove_git_pair_section(h.content)
         IN  IF new_content.some
             THEN IF is_effectively_empty(new_content.value)
                  THEN [ok |-> TRUE, hook |-> NoHook]
                  ELSE [ok |-> TRUE, hook |-> [h EXCEPT !.content = new_content.value]]
             ELSE [ok |-> TRUE, hook |-> h]
    ELSE [ok |-> TRUE, hook |-> h]

-----------------------------------------------------------------------------
(* Co-author store                                                         *)

CO_AUTHORED_BY == <<"C", "o", "-", "a", "u", "t", "h", "o", "r", "e", "d", "-", "b", "y", ":">>

\* the co-authors the commands are run with: name, surname, email
People ==
    { [name |-> <<"J", "o">>, surname |-> <<"L", "i">>, email |-> <<"j", "@", "x">>],
      [name |-> <<"A", "l">>, surname |-> <<"L", "i">>, email |-> <<"a", "@", "x">>] }

\* the identifiers `remove` is run with: a surname in lower case, an email
\* prefix, a name, a roster alias, and text no record holds
Identifiers ==
    { <<"l", "i">>, <<"j", "@">>, <<"A", "l">>, <<"j", "j">>, <<"z">> }

\* the branches that get checked out
Branches == { <<"m">>, <<"f", "/", "x">> }

\* the global roster the store reads: (alias, name, email)
InitialRoster == << <<(<<"j", "j">>), (<<"J", "o", " ", "L", "i">>), (<<"j", "@", "x">>)>> >>

\* the Greek letters of a name: capital sigma, whose lower case is "sigma"
\* inside a word and "final_sigma" at the end of one, and capital omicron
GreekUpper == {"SIGMA", "OMICRON"}
GreekLower == {"sigma", "final_sigma", "omicron"}

\* char::is_cased, on the characters the names are made of: the letters
IsCased(c) ==
    c \in {"J", "A", "L", "C", "I", "P", "T", "Z", "a", "b", "c", "d", "e", "h", "i",
           "j", "l", "o", "r", "t", "u", "x", "y", "z"} \cup GreekUpper \cup GreekLower

\* char::is_case_ignorable, on the characters of a record line
IsCaseIgnorable(c) == c \in {":", "'", "."}

\* case_ignorable_then_cased of str::to_lowercase: after the case-ignorable
\* characters comes a cased one
RECURSIVE case_ignorable_then_cased(_)
case_ignorable_then_cased(s) ==
    IF s = <<>> THEN FALSE
    ELSE IF IsCaseIgnorable(Head(s)) THEN case_ignorable_then_cased(Tail(s))
    ELSE IsCased(Head(s))

Reverse(s) == [i \in 1..Len(s) |-> s[Len(s) + 1 - i]]

\* map_uppercase_sigma of str::to_lowercase: the capital sigma at position i
\* ends a word when a cased letter precedes it and none follows it
is_word_final(s, i) ==
    /\ case_ignorable_then_cased(Reverse(SubSeq(s, 1, i - 1)))
    /\ ~case_ignorable_then_cased(SubSeq(s, i + 1, Len(s)))

\* str::to_lowercase, on the characters the names are made of
to_lowercase(s) ==
    [i \in 1..Len(s) |->
        CASE s[i] = "J" -> "j"
          [] s[i] = "A" -> "a"
          [] s[i] = "L" -> "l"
          [] s[i] = "C" -> "c"
          [] s[i] = "I" -> "i"
          [] s[i] = "OMICRON" -> "omicron"
          [] s[i] = "SIGMA" -> IF is_word_final(s, i) THEN "final_sigma" ELSE "sigma"
          [] OTHER -> s[i]]

\* the sanitizing of get_branch_config_file: '/', '\' and ':' become '_'
safe_branch_name(b) ==
    [i \in 1..Len(b) |-> IF b[i] \in {"/", "\\", ":"} THEN "_" ELSE b[i]]

\* get_branch_config_file: the ledger of a branch is named by its sanitized name
get_branch_config_file(b) == safe_branch_name(b)

ConfigFiles == {get_branch_config_file(b) : b \in Branches}

NoFile == [exists |-> FALSE, content |-> <<>>]

\* the two header lines written by init, remove and clear
default_config(b) ==
    <<"# git-pair configuration file for branch '">> \o b
        \o <<"'", NL, "# Co-authors will be listed here", NL>>

\* coauthor_line without the "\n" that ends the format string of line 205
coauthor_line_without_newline(p) ==
    LET full_name == p.name \o <<SP>> \o p.surname
    IN  CO_AUTHORED_BY \o <<SP>> \o full_name \o <<SP, "<">> \o p.email \o <<">">>

\* the co-author entry of add_coauthor, lines 204-205
coauthor_line(p) ==
    LET full_name == p.name \o <<SP>> \o p.surname
    IN  CO_AUTHORED_BY \o <<SP>> \o full_name \o <<SP, "<">> \o p.email \o <<">", NL>>

\* get_coauthors without the filter of line 441: every line of the ledger
get_coauthors_unfiltered(config_content) == Lines(config_content)

\* the filter of lines 236-239, 304-308 and 439-443
get_coauthors(config_content) ==
    SelectSeq(Lines(config_content), LAMBDA line : StartsWith(line, CO_AUTHORED_BY))

\* matches_coauthor without the check of lines 381-386: the identifier is
\* looked for as it is written only
matches_coauthor_case_sensitive(line, identifier) == Contains(line, identifier)

\* matches_coauthor
matches_coauthor(line, identifier) ==
    \/ Contains(to_lowercase(line), to_lowercase(identifier))
    \/ Contains(line, identifier)

\* update_commit_template without the is_empty branch of line 241
update_commit_template_always_installs(config_content, h) == install_git_hook_in(h)

\* update_commit_template without the remove_git_hook of line 243: an empty
\* ledger leaves the hook file as it is
update_commit_template_keeps_hook(config_content, h) ==
    IF get_coauthors(config_content) = <<>>
    THEN [ok |-> TRUE, hook |-> h]
    ELSE install_git_hook_in(h)

\* update_commit_template, given the ledger content it reads: [ok, hook]
update_commit_template(config_content, h) ==
    IF get_coauthors(config_content) = <<>>
    THEN remove_git_hook_in(h)
    ELSE install_git_hook_in(h)

\* the concatenation of lines 353-356: every line followed by "\n"
RECURSIVE JoinLines(_)
JoinLines(ls) ==
    IF ls = <<>> THEN <<>> ELSE Head(ls) \o <<NL>> \o JoinLines(Tail(ls))

\* the lookup of line 319: the first roster entry with this alias, or <<>>
RosterFind(r, alias) ==
    LET hits == {i \in 1..Len(r) : r[i][1] = alias}
    IN  IF hits = {} THEN <<>> ELSE r[CHOOSE i \in hits : \A j \in hits : i <= j]

\* remove_coauthor without the early returns of lines 329-340: the ledger is
\* rewritten whether or not a record was dropped
remove_matching_never_not_found(config_content, identifier, r) ==
    LET coauthor_lines == get_coauthors(config_content)
        direct == SelectSeq(coauthor_lines, LAMBDA line : ~matches_coauthor(line, identifier))
        entry == RosterFind(r, identifier)
        byAlias == SelectSeq(coauthor_lines,
                       LAMBDA line : ~Contains(line, entry[2]) /\ ~Contains(line, entry[3]))
    IN  IF Len(direct) # Len(coauthor_lines) \/ entry = <<>>
        THEN [found |-> TRUE, lines |-> direct]
        ELSE [found |-> TRUE, lines |-> byAlias]

\* remove_coauthor with a retain that stops at the first record it drops
remove_matching_first_only(config_content, identifier, r) ==
    LET coauthor_lines == get_coauthors(config_content)
        entry == RosterFind(r, identifier)
        direct == {i \in 1..Len(coauthor_lines) : matches_coauthor(coauthor_lines[i], identifier)}
        byAlias == {i \in 1..Len(coauthor_lines) :
                       /\ entry # <<>>
                       /\ \/ Contains(coauthor_lines[i], entry[2])
                          \/ Contains(coauthor_lines[i], entry[3])}
        hits == IF direct # {} THEN direct ELSE byAlias
        first == CHOOSE i \in hits : \A j \in hits : i <= j
    IN  IF hits = {}
        THEN [found |-> FALSE, lines |-> coauthor_lines]
        ELSE [found |-> TRUE,
              lines |-> SubSeq(coauthor_lines, 1, first - 1)
                           \o SubSeq(coauthor_lines, first + 1, Len(coauthor_lines))]

\* lines 304-341 of remove_coauthor: [found, lines], the records that are kept
remove_matching(config_content, identifier, r) ==
    LET coauthor_lines == get_coauthors(config_content)
        direct == SelectSeq(coauthor_lines, LAMBDA line : ~matches_coauthor(line, identifier))
        entry == RosterFind(r, identifier)
        byAlias == SelectSeq(coauthor_lines,
                       LAMBDA line : ~Contains(line, entry[2]) /\ ~Contains(line, entry[3]))
    IN  IF Len(direct) # Len(coauthor_lines)
        THEN [found |-> TRUE, lines |-> direct]
        ELSE IF entry # <<>> /\ Len(byAlias) # Len(coauthor_lines)
             THEN [found |-> TRUE, lines |-> byAlias]
             ELSE [found |-> FALSE, lines |-> coauthor_lines]

\* the roster file that holds InitialRoster: the header add_global_coauthor
\* writes into a new file (line 81) and one line alias|name|email
InitialRosterFile ==
    [exists |-> TRUE,
     content |-> <<"# Global git-pair roster", NL, "# Format: alias|name|email", NL,
                   "j", "j", "|", "J", "o", " ", "L", "i", "|", "j", "@", "x", NL>>]

\* the header of a new roster file, line 81
default_roster == <<"# Global git-pair roster", NL, "# Format: alias|name|email", NL>>

\* line.starts_with('#') on a line of the roster file
IsRosterComment(line) ==
    line # <<>> /\ line[1] \in {"#", "# Global git-pair roster", "# Format: alias|name|email"}

\* str::split('|'): the fields of a line, one more than it holds '|'
RECURSIVE SplitPipe(_)
SplitPipe(line) ==
    LET n == Find(line, <<"|">>)
    IN  IF n = 0 THEN <<line>>
        ELSE <<SubSeq(line, 1, n - 1)>> \o SplitPipe(SubSeq(line, n + 1, Len(line)))

\* str::split_whitespace: the words of a text
RECURSIVE SplitWhitespace(_)
SplitWhitespace(s) ==
    LET t == TrimStart(s)
        ws == {i \in 1..Len(t) : IsWhitespace(t[i])}
        n == IF ws = {} THEN Len(t) + 1 ELSE CHOOSE i \in ws : \A j \in ws : i <= j
    IN  IF t = <<>> THEN <<>>
        ELSE <<SubSeq(t, 1, n - 1)>> \o SplitWhitespace(SubSeq(t, n, Len(t)))

\* [T]::join(" ")
RECURSIVE JoinSpace(_)
JoinSpace(words) ==
    IF words = <<>> THEN <<>>
    ELSE IF Len(words) = 1 THEN words[1]
    ELSE words[1] \o <<SP>> \o JoinSpace(Tail(words))

\* the loop of lines 116-129 over the lines of the roster file
RECURSIVE roster_entries(_)
roster_entries(ls) ==
    IF ls = <<>> THEN <<>>
    ELSE LET line == Head(ls)
             parts == SplitPipe(line)
         IN  IF IsRosterComment(line) \/ Trim(line) = <<>>
             THEN roster_entries(Tail(ls))
             ELSE IF Len(parts) = 3
                  THEN <<parts>> \o roster_entries(Tail(ls))
                  ELSE roster_entries(Tail(ls))

\* get_global_roster: the triples (alias, name, email) of the roster file
get_global_roster(file) ==
    IF ~file.exists THEN <<>> ELSE roster_entries(Lines(file.content))

\* add_global_coauthor: [ok, file]; ok = FALSE is the Err of line 89
add_global_coauthor(file, alias, name, email) ==
    LET content == IF file.exists THEN file.content ELSE default_roster
        new_entry == alias \o <<"|">> \o name \o <<"|">> \o email \o <<NL>>
    IN  IF \E k \in 1..Len(Lines(content)) :
               StartsWith(Lines(content)[k], alias \o <<"|">>)
        THEN [ok |-> FALSE, file |-> file]
        ELSE [ok |-> TRUE, file |-> [exists |-> TRUE, content |-> content \o new_entry]]

\* lines 140-148 of add_coauthor_from_global: the name, surname and email
\* add_coauthor is called with for a roster entry
coauthor_from_global(entry) ==
    LET name_parts == SplitWhitespace(entry[2])
    IN  IF Len(name_parts) >= 2
        THEN [name |-> name_parts[1], surname |-> JoinSpace(Tail(name_parts)),
              email |-> entry[3]]
        ELSE [name |-> entry[2], surname |-> <<>>, email |-> entry[3]]

-----------------------------------------------------------------------------
(* State                                                                   *)
(*   hook      the file .git/hooks/prepare-commit-msg                      *)
(*   prevHook  that file as it was when the last command started          *)
(*   ledger    the files .git/git-pair/config-<name>, by <name>            *)
(*   prevLedger  those files as they were when the last command started   *)
(*   branch    the branch `git branch --show-current` reports              *)
(*   roster    the global roster, as get_global_roster returns it          *)
(*   rosterFile  the global roster file                                    *)
(*   torn      whether a step of one add_coauthor call has fallen between  *)
(*             the two halves of the ledger write of another               *)
(*   adders    the add_coauthor calls under way at the same time: where    *)
(*             each one stands, its co-author, the ledger content it read  *)
(*   repo      the working directory: whether .git, .git/git-pair and      *)
(*             .git/hooks exist, and whether `git branch --show-current`   *)
(*             succeeds; a detached HEAD is the empty branch name          *)
(*   last      the last command and what it returned                       *)
(*   arg       the argument the last command was called with               *)
(*   named     the branch named in the message the last command returned   *)
(*   listed    the Vec the last command returned, when it was a list       *)
(*   records   by ledger, the lines appended by add and not yet taken      *)
(*             out by remove or clear, in the order they were appended     *)
(*   message   the commit message file as the hook left it, when the last  *)
(*             step was a commit                                           *)

\* every text of at most n pieces
Text(pieces, n) == UNION {[1..k -> pieces] : k \in 0..n}

\* the hook files a repository may hold before git-pair is first run
UserHooks(pieces, n) ==
    {NoHook} \cup {[exists |-> TRUE, content |-> c, exec |-> e] :
                      c \in Text(pieces, n), e \in BOOLEAN}

\* pieces of the user hooks of the store specification
StorePieces == {BEGIN_MARKER[1], END_MARKER[1], NL, "x"}

\* the add_coauthor calls that can be under way at the same time
Procs == {1, 2}

\* no add_coauthor call is under way
NoAdders ==
    [i \in Procs |->
        [pc |-> "idle",
         p |-> [name |-> <<>>, surname |-> <<>>, email |-> <<>>],
         existing_content |-> <<>>]]

Result(op, result) == [op |-> op, result |-> result]

\* the bound on the hook file a command is run on
FileFits == Len(hook.content) <= MaxFileLen

Init ==
    /\ hook \in UserHooks(StorePieces, MaxStoreHookLen)
    /\ prevHook = hook
    /\ ledger = [f \in ConfigFiles |-> NoFile]
    /\ branch = <<"m">>
    /\ roster = InitialRoster
    /\ last = Result("none", "none")
    /\ prevLedger = ledger
    /\ arg = <<>>
    /\ named = <<>>
    /\ listed = <<>>
    /\ records = [f \in ConfigFiles |-> <<>>]
    /\ message = <<>>
    /\ rosterFile = InitialRosterFile
    /\ adders = NoAdders
    /\ torn = FALSE
    /\ repo = [git_dir |-> TRUE, git_pair_dir |-> FALSE, hooks_dir |-> hook.exists,
               branch_query |-> "ok"]

\* get_git_pair_dir and get_current_branch both return Ok: there is a .git
\* directory, the branch query succeeds and its answer is not empty
Resolved ==
    /\ repo.git_dir
    /\ repo.branch_query = "ok"
    /\ branch # <<>>

\* the create_dir_all of line 565, reached through update_commit_template when
\* the ledger holds a record
update_hooks_dir(config_content, r) ==
    [r EXCEPT !.hooks_dir = @ \/ get_coauthors(config_content) # <<>>]

\* a command of the store that got past get_branch_config_file and
\* get_current_branch, and what it leaves behind besides its result: the
\* state it started from, its argument and the branch its message names
\* (branch_name in every format! of the store)
Called(a) ==
    /\ Resolved
    /\ prevHook' = hook
    /\ prevLedger' = ledger
    /\ arg' = a
    /\ named' = branch
    /\ message' = <<>>
    /\ UNCHANGED <<rosterFile, adders, torn>>

\* git checkout, done by the user between two commands
Checkout(b) ==
    /\ b # branch
    /\ branch' = b
    /\ prevHook' = hook
    /\ prevLedger' = ledger
    /\ arg' = b
    /\ named' = b
    /\ listed' = <<>>
    /\ last' = Result("checkout", "ok")
    /\ repo.git_dir
    /\ UNCHANGED <<hook, ledger, roster, records, message, rosterFile, adders, torn, repo>>

\* init_pair_config without the exists test of line 171: the header is
\* written over whatever the ledger holds
InitPair_overwrites ==
    LET config_file == get_branch_config_file(branch)
    IN  /\ Called(<<>>)
        /\ listed' = <<>>
        /\ UNCHANGED <<hook, branch, roster>>
        /\ repo' = [repo EXCEPT !.git_pair_dir = TRUE]
        /\ ledger' = [ledger EXCEPT ![config_file] =
                         [exists |-> TRUE, content |-> default_config(branch)]]
        /\ records' = [records EXCEPT ![config_file] = <<>>]
        /\ last' = Result("init", "ok")

\* init_pair_config
InitPair ==
    LET config_file == get_branch_config_file(branch)
    IN  /\ Called(<<>>)
        /\ listed' = <<>>
        /\ UNCHANGED <<hook, branch, roster>>
        /\ repo' = [repo EXCEPT !.git_pair_dir = TRUE]
        /\ IF ledger[config_file].exists
           THEN /\ last' = Result("init", "already_initialized")
                /\ UNCHANGED <<ledger, records>>
           ELSE /\ ledger' = [ledger EXCEPT ![config_file] =
                                 [exists |-> TRUE, content |-> default_config(branch)]]
                /\ records' = [records EXCEPT ![config_file] = <<>>]
                /\ last' = Result("init", "ok")

\* add_coauthor without the duplicate test of lines 208-213
Add_without_duplicate_check(p) ==
    LET config_file == get_branch_config_file(branch)
        existing_content == ledger[config_file].content
        new_content == existing_content \o coauthor_line(p)
        updated == update_commit_template(new_content, hook)
    IN  /\ FileFits
        /\ Called(p)
        /\ listed' = <<>>
        /\ UNCHANGED <<branch, roster>>
        /\ IF ~ledger[config_file].exists
           THEN /\ last' = Result("add", "NotInitialized")
                /\ UNCHANGED <<hook, ledger, records, repo>>
           ELSE /\ ledger' = [ledger EXCEPT ![config_file].content = new_content]
                /\ records' = [records EXCEPT ![config_file] =
                                  Append(@, Trim(coauthor_line(p)))]
                /\ hook' = updated.hook
                /\ repo' = update_hooks_dir(new_content, repo)
                /\ last' = Result("add", IF updated.ok THEN "ok" ELSE "MalformedHook")

\* add_coauthor without the check of lines 192-197: a ledger that does not
\* exist is taken for an empty one and created by the write
Add_without_initialized_check(p) ==
    LET config_file == get_branch_config_file(branch)
        existing_content == ledger[config_file].content
        new_content == existing_content \o coauthor_line(p)
        updated == update_commit_template(new_content, hook)
    IN  /\ FileFits
        /\ Called(p)
        /\ listed' = <<>>
        /\ UNCHANGED <<branch, roster>>
        /\ IF Contains(existing_content, Trim(coauthor_line(p)))
           THEN /\ last' = Result("add", "already_exists")
                /\ UNCHANGED <<hook, ledger, records, repo>>
           ELSE /\ ledger' = [ledger EXCEPT ![config_file] =
                                 [exists |-> TRUE, content |-> new_content]]
                /\ records' = [records EXCEPT ![config_file] =
                                  Append(@, Trim(coauthor_line(p)))]
                /\ hook' = updated.hook
                /\ repo' = update_hooks_dir(new_content, repo)
                /\ last' = Result("add", IF updated.ok THEN "ok" ELSE "MalformedHook")

\* add_coauthor
Add(p) ==
    LET config_file == get_branch_config_file(branch)
        existing_content == ledger[config_file].content
        new_content == existing_content \o coauthor_line(p)
        updated == update_commit_template(new_content, hook)
    IN  /\ FileFits
        /\ Called(p)
        /\ listed' = <<>>
        /\ UNCHANGED <<branch, roster>>
        /\ IF ~ledger[config_file].exists
           THEN /\ last' = Result("add", "NotInitialized")
                /\ UNCHANGED <<hook, ledger, records, repo>>
           ELSE IF Contains(existing_content, Trim(coauthor_line(p)))
           THEN /\ last' = Result("add", "already_exists")
                /\ UNCHANGED <<hook, ledger, records, repo>>
           ELSE /\ ledger' = [ledger EXCEPT ![config_file].content = new_content]
                /\ records' = [records EXCEPT ![config_file] =
                                  Append(@, Trim(coauthor_line(p)))]
                /\ hook' = updated.hook
                /\ repo' = update_hooks_dir(new_content, repo)
                /\ last' = Result("add", IF updated.ok THEN "ok" ELSE "MalformedHook")

\* remove_coauthor
Remove(identifier) ==
    LET config_file == get_branch_config_file(branch)
        existing_content == ledger[config_file].content
        kept == remove_matching(existing_content, identifier, roster)
        new_content == default_config(branch) \o JoinLines(kept.lines)
        updated == update_commit_template(new_content, hook)
    IN  /\ FileFits
        /\ Called(identifier)
        /\ listed' = <<>>
        /\ UNCHANGED <<branch, roster>>
        /\ IF ~ledger[config_file].exists
           THEN /\ last' = Result("remove", "NotInitialized")
                /\ UNCHANGED <<hook, ledger, records, repo>>
           ELSE IF ~kept.found
           THEN /\ last' = Result("remove", "NotFound")
                /\ UNCHANGED <<hook, ledger, records, repo>>
           ELSE /\ ledger' = [ledger EXCEPT ![config_file].content = new_content]
                /\ records' = [records EXCEPT ![config_file] =
                                  remove_matching(JoinLines(@), identifier, roster).lines]
                /\ hook' = updated.hook
                /\ repo' = update_hooks_dir(new_content, repo)
                /\ last' = Result("remove", IF updated.ok THEN "ok" ELSE "MalformedHook")

\* clear_coauthors with the hook step of line 417 taken only when the ledger
\* held a record
Clear_keeps_hook_when_empty ==
    LET config_file == get_branch_config_file(branch)
        removed == IF get_coauthors(ledger[config_file].content) = <<>>
                   THEN [ok |-> TRUE, hook |-> hook]
                   ELSE remove_git_hook_in(hook)
    IN  /\ FileFits
        /\ Called(<<>>)
        /\ listed' = <<>>
        /\ UNCHANGED <<branch, roster>>
        /\ IF ~ledger[config_file].exists
           THEN /\ last' = Result("clear", "NotInitialized")
                /\ UNCHANGED <<hook, ledger, records, repo>>
           ELSE /\ ledger' = [ledger EXCEPT ![config_file].content = default_config(branch)]
                /\ records' = [records EXCEPT ![config_file] = <<>>]
                /\ hook' = removed.hook
                /\ UNCHANGED repo
                /\ last' = Result("clear", IF removed.ok THEN "ok" ELSE "MalformedHook")

\* clear_coauthors
Clear ==
    LET config_file == get_branch_config_file(branch)
        removed == remove_git_hook_in(hook)
    IN  /\ FileFits
        /\ Called(<<>>)
        /\ listed' = <<>>
        /\ UNCHANGED <<branch, roster>>
        /\ IF ~ledger[config_file].exists
           THEN /\ last' = Result("clear", "NotInitialized")
                /\ UNCHANGED <<hook, ledger, records, repo>>
           ELSE /\ ledger' = [ledger EXCEPT ![config_file].content = default_config(branch)]
                /\ records' = [records EXCEPT ![config_file] = <<>>]
                /\ hook' = removed.hook
                /\ UNCHANGED repo
                /\ last' = Result("clear", IF removed.ok THEN "ok" ELSE "MalformedHook")

\* get_coauthors, the list command
List ==
    LET config_file == get_branch_config_file(branch)
    IN  /\ Called(<<>>)
        /\ UNCHANGED <<hook, ledger, branch, roster, records, repo>>
        /\ IF ~ledger[config_file].exists
           THEN /\ last' = Result("list", "NotInitialized")
                /\ listed' = <<>>
           ELSE /\ last' = Result("list", "ok")
                /\ listed' = get_coauthors(ledger[config_file].content)

Next ==
    \/ InitPair
    \/ \E p \in People : Add(p)
    \/ \E identifier \in Identifiers : Remove(identifier)
    \/ Clear
    \/ \E b \in Branches : Checkout(b)

Spec == Init /\ [][Next]_vars

-----------------------------------------------------------------------------
(* The hook installer on its own: install and remove called on every hook  *)
(* file of at most MaxHookLen pieces.                                      *)

InitHook ==
    /\ hook \in UserHooks(HookPieces, MaxHookLen)
    /\ prevHook = hook
    /\ ledger = [f \in ConfigFiles |-> NoFile]
    /\ branch = <<"m">>
    /\ roster = InitialRoster
    /\ last = Result("none", "none")
    /\ prevLedger = ledger
    /\ arg = <<>>
    /\ named = <<>>
    /\ listed = <<>>
    /\ records = [f \in ConfigFiles |-> <<>>]
    /\ message = <<>>
    /\ rosterFile = InitialRosterFile
    /\ adders = NoAdders
    /\ torn = FALSE
    /\ repo = [git_dir |-> TRUE, git_pair_dir |-> FALSE, hooks_dir |-> hook.exists,
               branch_query |-> "ok"]

\* a call of install_git_hook_in
Install ==
    LET installed == install_git_hook_in(hook)
    IN  /\ FileFits
        /\ hook' = installed.hook
        /\ repo' = [repo EXCEPT !.hooks_dir = TRUE]
        /\ prevHook' = hook
        /\ prevLedger' = ledger
        /\ last' = Result("install", IF installed.ok THEN "ok" ELSE "MalformedHook")
        /\ UNCHANGED <<ledger, branch, roster, arg, named, listed, records, message, rosterFile, adders, torn>>

\* a call of remove_git_hook_in
RemoveHook ==
    LET removed == remove_git_hook_in(hook)
    IN  /\ FileFits
        /\ hook' = removed.hook
        /\ UNCHANGED repo
        /\ prevHook' = hook
        /\ prevLedger' = ledger
        /\ last' = Result("remove_hook", IF removed.ok THEN "ok" ELSE "MalformedHook")
        /\ UNCHANGED <<ledger, branch, roster, arg, named, listed, records, message, rosterFile, adders, torn>>

NextHook == Install \/ RemoveHook

SpecHook == InitHook /\ [][NextHook]_vars

-----------------------------------------------------------------------------
(* Adds only: init, add and checkout, from a hook file that is absent or   *)
(* holds no marker.                                                        *)

\* the number of occurrences of a marker in a text
Count(s, marker) ==
    Cardinality({i \in 1..(Len(s) - Len(marker) + 1) :
                    SubSeq(s, i, i + Len(marker) - 1) = marker})

NoMarker(c) == Count(c, BEGIN_MARKER) = 0 /\ Count(c, END_MARKER) = 0

InitAdds == Init /\ NoMarker(hook.content)

NextAdds ==
    \/ InitPair
    \/ \E p \in People : Add(p)
    \/ \E b \in Branches : Checkout(b)

SpecAdds == InitAdds /\ [][NextAdds]_vars

-----------------------------------------------------------------------------
(* The ledger on its own: every command of the store, list included, from a *)
(* repository without hook file or with a user's one-line hook, run with    *)
(* one more co-author, whose email was typed with the closing '>'.          *)

\* the co-authors of People and one whose line holds another's line
LedgerPeople ==
    People \cup
        { [name |-> <<"J", "o">>, surname |-> <<"L", "i">>, email |-> <<"j", "@", "x", ">">>] }

InitLedger ==
    /\ Init
    /\ hook \in {NoHook, [exists |-> TRUE, content |-> <<"x">>, exec |-> TRUE]}

NextLedger ==
    \/ InitPair
    \/ \E p \in LedgerPeople : Add(p)
    \/ \E identifier \in Identifiers : Remove(identifier)
    \/ Clear
    \/ List
    \/ \E b \in Branches : Checkout(b)

SpecLedger == InitLedger /\ [][NextLedger]_vars

-----------------------------------------------------------------------------
(* The generated section at work: git runs the hook file, when it is        *)
(* executable, with the commit message file and the source of the message,  *)
(* between the commands of the store and the user's checkouts.  The lines   *)
(* of the user's own script are taken to leave the message alone.           *)

\* the second argument git hands to prepare-commit-msg
CommitSources == {"", "message", "template", "merge", "squash", "commit"}

\* the commit messages the hook is run on: without and with final newline,
\* with a co-author trailer, with one written in lower case
CommitMessages ==
    { <<"T">>,
      <<"T", NL>>,
      <<"T", NL, NL>> \o CO_AUTHORED_BY \o <<SP, "Z", NL>>,
      <<"T", NL, NL>> \o to_lowercase(CO_AUTHORED_BY) \o <<SP, "Z", NL>> }

\* line 588 of the section: sed 's/[/\\:]/_/g' on the branch name
sed_safe_branch(current_branch) ==
    [i \in 1..Len(current_branch) |->
        IF current_branch[i] \in {"/", "\\", ":"} THEN "_" ELSE current_branch[i]]

\* line 585: grep -q "Co-authored-by:" on the message file
grep_q_coauthored_by(commit_msg) == Contains(commit_msg, CO_AUTHORED_BY)

\* line 593: $(grep '^Co-authored-by:' "$CONFIG_FILE"), the matching lines
grep_coauthors(config_content) ==
    SelectSeq(Lines(config_content), LAMBDA line : StartsWith(line, CO_AUTHORED_BY))

\* lines 579-600 with the source test of line 583 left out
prepare_commit_msg_any_source(commit_source, commit_msg, current_branch, files) ==
    LET config_file == sed_safe_branch(current_branch)
        coauthors == grep_coauthors(files[config_file].content)
    IN  IF ~grep_q_coauthored_by(commit_msg) /\ files[config_file].exists
           /\ coauthors # <<>>
        THEN commit_msg \o <<NL>> \o JoinLines(coauthors)
        ELSE commit_msg

\* lines 579-600 with the test of line 585 left out: the co-authors are
\* appended whatever the message holds
prepare_commit_msg_without_grep_q(commit_source, commit_msg, current_branch, files) ==
    LET config_file == sed_safe_branch(current_branch)
        coauthors == grep_coauthors(files[config_file].content)
    IN  IF (commit_source = "" \/ commit_source = "message")
           /\ files[config_file].exists /\ coauthors # <<>>
        THEN commit_msg \o <<NL>> \o JoinLines(coauthors)
        ELSE commit_msg

\* lines 579-600 of the section, the shell code of the hook: the message
\* file as it leaves it.  `echo ""` appends a newline, `echo "$COAUTHORS"`
\* the matching lines, each followed by a newline.
prepare_commit_msg(commit_source, commit_msg, current_branch, files) ==
    IF commit_source = "" \/ commit_source = "message"
    THEN IF ~grep_q_coauthored_by(commit_msg)
         THEN LET config_file == sed_safe_branch(current_branch)
              IN  IF files[config_file].exists
                  THEN LET coauthors == grep_coauthors(files[config_file].content)
                       IN  IF coauthors # <<>>
                           THEN commit_msg \o <<NL>> \o JoinLines(coauthors)
                           ELSE commit_msg
                  ELSE commit_msg
         ELSE commit_msg
    ELSE commit_msg

\* git commit: the hook file is run when it exists and is executable; the
\* generated section is what acts on the message
Commit(commit_source, commit_msg) ==
    /\ hook.exists
    /\ hook.exec
    /\ Contains(hook.content, git_pair_section)
    /\ message' = prepare_commit_msg(commit_source, commit_msg, branch, ledger)
    /\ arg' = [source |-> commit_source, message |-> commit_msg]
    /\ last' = Result("commit", "ok")
    /\ prevHook' = hook
    /\ prevLedger' = ledger
    /\ listed' = <<>>
    /\ UNCHANGED <<hook, ledger, branch, roster, named, records, rosterFile, adders, torn, repo>>

NextCommit ==
    \/ InitPair
    \/ \E p \in People : Add(p)
    \/ Clear
    \/ \E b \in Branches : Checkout(b)
    \/ \E commit_source \in CommitSources, commit_msg \in CommitMessages :
          Commit(commit_source, commit_msg)

SpecCommit == InitLedger /\ [][NextCommit]_vars

-----------------------------------------------------------------------------
(* The roster: add_global_coauthor, get_global_roster and                   *)
(* add_coauthor_from_global, with the store's init, add and remove on one   *)
(* branch, from a roster file that is absent, empty or holds one entry.     *)

\* the entries add_global_coauthor is called with: two persons under the
\* same alias, a person with a single name, and a name that holds the field
\* separator
RosterEntries ==
    { << <<"j", "j">>, <<"J", "o", " ", "L", "i">>, <<"j", "@", "x">> >>,
      << <<"j", "j">>, <<"A", "l", " ", "L", "i">>, <<"a", "j", "@", "x">> >>,
      << <<"c", "h">>, <<"C", "h">>, <<"c", "@", "x">> >>,
      << <<"p", "i">>, <<"P", "|", "I">>, <<"p", "@", "x">> >> }

\* the aliases co-authors are added and removed by: two of the entries and
\* one that is never in the roster
RosterAliases == {<<"j", "j">>, <<"c", "h">>, <<"z">>}

\* the co-author added by name: Al Li, whose email ends in Jo Li's
RosterPeople ==
    { [name |-> <<"A", "l">>, surname |-> <<"L", "i">>, email |-> <<"a", "j", "@", "x">>] }

InitRoster ==
    /\ hook = NoHook
    /\ prevHook = hook
    /\ ledger = [f \in ConfigFiles |-> NoFile]
    /\ prevLedger = ledger
    /\ branch = <<"m">>
    /\ rosterFile \in {NoFile, [exists |-> TRUE, content |-> <<>>], InitialRosterFile}
    /\ adders = NoAdders
    /\ torn = FALSE
    /\ roster = get_global_roster(rosterFile)
    /\ last = Result("none", "none")
    /\ arg = <<>>
    /\ named = <<>>
    /\ listed = <<>>
    /\ records = [f \in ConfigFiles |-> <<>>]
    /\ message = <<>>
    /\ repo = [git_dir |-> TRUE, git_pair_dir |-> FALSE, hooks_dir |-> FALSE,
               branch_query |-> "ok"]

\* add_global_coauthor
AddGlobal(entry) ==
    LET added == add_global_coauthor(rosterFile, entry[1], entry[2], entry[3])
    IN  /\ Len(roster_entries(Lines(rosterFile.content))) < MaxRosterLen
        /\ rosterFile' = added.file
        /\ UNCHANGED <<adders, torn>>
        /\ roster' = get_global_roster(added.file)
        /\ last' = Result("add_global", IF added.ok THEN "ok" ELSE "AlreadyExists")
        /\ arg' = entry
        /\ listed' = <<>>
        /\ message' = <<>>
        /\ prevHook' = hook
        /\ prevLedger' = ledger
        /\ UNCHANGED <<hook, ledger, branch, named, records, repo>>

\* get_global_roster, the listing of the roster
ListGlobal ==
    /\ listed' = get_global_roster(rosterFile)
    /\ last' = Result("list_global", "ok")
    /\ arg' = <<>>
    /\ message' = <<>>
    /\ prevHook' = hook
    /\ prevLedger' = ledger
    /\ UNCHANGED <<hook, ledger, branch, roster, rosterFile, adders, torn, named, records, repo>>

\* add_coauthor_from_global: the alias is looked up before add_coauthor is
\* called, which does the rest
AddFromGlobal(alias) ==
    LET entry == RosterFind(get_global_roster(rosterFile), alias)
    IN  IF entry = <<>>
        THEN /\ last' = Result("add_from_global", "NotFound")
             /\ arg' = alias
             /\ listed' = <<>>
             /\ message' = <<>>
             /\ prevHook' = hook
             /\ prevLedger' = ledger
             /\ UNCHANGED <<hook, ledger, branch, roster, rosterFile, adders, torn, named, records, repo>>
        ELSE Add(coauthor_from_global(entry))

NextRoster ==
    \/ InitPair
    \/ \E entry \in RosterEntries : AddGlobal(entry)
    \/ ListGlobal
    \/ \E alias \in RosterAliases : AddFromGlobal(alias)
    \/ \E p \in RosterPeople : Add(p)
    \/ \E identifier \in RosterAliases : Remove(identifier)

SpecRoster == InitRoster /\ [][NextRoster]_vars

\* the roster the store reads is the roster file parsed
RosterParsed == roster = get_global_roster(rosterFile)

-----------------------------------------------------------------------------
(* The store where it cannot work: a directory without .git, a branch query *)
(* that fails, a detached HEAD.  The user's git init, checkout of a commit  *)
(* and checkout of a branch change the ground under the commands.           *)

\* the commands of the store
StoreOps == {"init", "add", "remove", "clear", "list"}

\* get_current_branch as get_branch_config_file calls it, after
\* get_git_pair_dir, with the two the other way round
resolve_error_branch_first(r, b) ==
    IF r.branch_query # "ok" THEN "BranchQueryFailed"
    ELSE IF b = <<>> THEN "NoBranchName"
    ELSE IF ~r.git_dir THEN "NotARepository"
    ELSE "none"

\* the Err that get_git_pair_dir (line 12) or, after it, get_current_branch
\* (lines 25 and 34) returns, "none" when both return Ok
resolve_error(r, b) ==
    IF ~r.git_dir THEN "NotARepository"
    ELSE IF r.branch_query # "ok" THEN "BranchQueryFailed"
    ELSE IF b = <<>> THEN "NoBranchName"
    ELSE "none"

\* the commands with the create_dir_all of init_pair_config (line 161) moved
\* before the get_current_branch of line 158
Unresolved_creates_dir_first(op) ==
    /\ ~Resolved
    /\ last' = Result(op, resolve_error(repo, branch))
    /\ repo' = IF op = "init" /\ repo.git_dir
               THEN [repo EXCEPT !.git_pair_dir = TRUE]
               ELSE repo
    /\ prevHook' = hook
    /\ prevLedger' = ledger
    /\ arg' = <<>>
    /\ named' = <<>>
    /\ listed' = <<>>
    /\ message' = <<>>
    /\ UNCHANGED <<hook, ledger, branch, roster, records, rosterFile, adders, torn>>

\* init_pair_config, add_coauthor, remove_coauthor, clear_coauthors and
\* get_coauthors when get_git_pair_dir or get_current_branch returns Err: the
\* `?` of lines 157-158 and of lines 41-42 returns it before anything is read
\* or written
Unresolved(op) ==
    /\ ~Resolved
    /\ last' = Result(op, resolve_error(repo, branch))
    /\ prevHook' = hook
    /\ prevLedger' = ledger
    /\ arg' = <<>>
    /\ named' = <<>>
    /\ listed' = <<>>
    /\ message' = <<>>
    /\ UNCHANGED <<hook, ledger, branch, roster, records, rosterFile, adders, torn, repo>>

\* git init, done by the user in a directory without .git: the repository
\* has its hooks directory and is on branch m
GitInit ==
    /\ ~repo.git_dir
    /\ repo' = [repo EXCEPT !.git_dir = TRUE, !.hooks_dir = TRUE, !.branch_query = "ok"]
    /\ branch' = <<"m">>
    /\ last' = Result("git_init", "ok")
    /\ prevHook' = hook
    /\ prevLedger' = ledger
    /\ arg' = <<>>
    /\ named' = <<>>
    /\ listed' = <<>>
    /\ message' = <<>>
    /\ UNCHANGED <<hook, ledger, roster, records, rosterFile, adders, torn>>

\* git checkout of a commit, done by the user: HEAD is detached and
\* `git branch --show-current` prints nothing
Detach ==
    /\ repo.git_dir
    /\ branch # <<>>
    /\ branch' = <<>>
    /\ last' = Result("detach", "ok")
    /\ prevHook' = hook
    /\ prevLedger' = ledger
    /\ arg' = <<>>
    /\ named' = <<>>
    /\ listed' = <<>>
    /\ message' = <<>>
    /\ UNCHANGED <<hook, ledger, roster, records, rosterFile, adders, torn, repo>>

\* a directory without .git holds no hook file and no ledger; in a
\* repository the hook file is absent or the user's
InitEnv ==
    /\ repo \in [git_dir : BOOLEAN, git_pair_dir : {FALSE}, hooks_dir : BOOLEAN,
                 branch_query : {"ok", "failed"}]
    /\ repo.hooks_dir = repo.git_dir
    /\ hook \in {NoHook} \cup
                {h \in {[exists |-> TRUE, content |-> <<"x">>, exec |-> TRUE]} : repo.git_dir}
    /\ prevHook = hook
    /\ ledger = [f \in ConfigFiles |-> NoFile]
    /\ prevLedger = ledger
    /\ branch \in {<<>>, <<"m">>}
    /\ roster = InitialRoster
    /\ rosterFile = InitialRosterFile
    /\ adders = NoAdders
    /\ torn = FALSE
    /\ last = Result("none", "none")
    /\ arg = <<>>
    /\ named = <<>>
    /\ listed = <<>>
    /\ records = [f \in ConfigFiles |-> <<>>]
    /\ message = <<>>

NextEnv ==
    \/ InitPair
    \/ \E p \in People : Add(p)
    \/ \E identifier \in {<<"l", "i">>, <<"z">>} : Remove(identifier)
    \/ Clear
    \/ List
    \/ \E op \in StoreOps : Unresolved(op)
    \/ GitInit
    \/ Detach
    \/ \E b \in Branches : Checkout(b)

SpecEnv == InitEnv /\ [][NextEnv]_vars

-----------------------------------------------------------------------------
(* The matcher of remove: init, add, remove, clear and checkout, with a     *)
(* co-author whose name ends in a capital sigma and identifiers in upper    *)
(* case.                                                                    *)

\* Jo Li, and a co-author whose name is omicron, sigma in capitals
MatchPeople ==
    { [name |-> <<"J", "o">>, surname |-> <<"L", "i">>, email |-> <<"j", "@", "x">>],
      [name |-> <<"OMICRON", "SIGMA">>, surname |-> <<"L", "i">>,
       email |-> <<"o", "@", "x">>] }

\* the identifiers remove is run with: the surname in capitals, an email in
\* capitals, the capital sigma, a name in lower case, and text no record holds
MatchIdentifiers ==
    { <<"L", "I">>, <<"J", "@", "x">>, <<"SIGMA">>, <<"omicron", "final_sigma">>, <<"z">> }

\* a repository without hook file, and no roster
InitMatch ==
    /\ hook = NoHook
    /\ prevHook = hook
    /\ ledger = [f \in ConfigFiles |-> NoFile]
    /\ prevLedger = ledger
    /\ branch = <<"m">>
    /\ roster = <<>>
    /\ rosterFile = NoFile
    /\ adders = NoAdders
    /\ torn = FALSE
    /\ last = Result("none", "none")
    /\ arg = <<>>
    /\ named = <<>>
    /\ listed = <<>>
    /\ records = [f \in ConfigFiles |-> <<>>]
    /\ message = <<>>
    /\ repo = [git_dir |-> TRUE, git_pair_dir |-> FALSE, hooks_dir |-> FALSE,
               branch_query |-> "ok"]

NextMatch ==
    \/ InitPair
    \/ \E p \in MatchPeople : Add(p)
    \/ \E identifier \in MatchIdentifiers : Remove(identifier)
    \/ Clear
    \/ \E b \in Branches : Checkout(b)

SpecMatch == InitMatch /\ [][NextMatch]_vars

-----------------------------------------------------------------------------
(* Branch names that differ only in a character get_branch_config_file      *)
(* replaces: the store's commands with checkouts among m, f/x and f_x.      *)

\* the branches of the repository: f/x and f_x besides m
CollidingBranches == Branches \cup { <<"f", "_", "x">> }

NextBranches ==
    \/ InitPair
    \/ \E p \in People : Add(p)
    \/ \E identifier \in {<<"l", "i">>, <<"z">>} : Remove(identifier)
    \/ Clear
    \/ \E b \in CollidingBranches : Checkout(b)

SpecBranches == InitMatch /\ [][NextBranches]_vars

-----------------------------------------------------------------------------
(* Two add_coauthor calls at the same time on branch m.  A call reads the   *)
(* ledger, later writes it with fs::write, and then does its hook step.     *)
(* fs::write is File::create, which opens the ledger and truncates it, and  *)
(* then write_all, which writes the whole content at the start of the file: *)
(* two steps, and a step of the other call can fall between them.           *)

\* another add_coauthor call than i is between the two halves of its write
OtherWriting(i) == \E j \in Procs \ {i} : adders[j].pc = "created"

\* write_all on a file opened by File::create: the bytes go to the start of
\* the file, and what the file holds beyond them stays.  Offsets are counted
\* in pieces of text.
write_at_start(old, new) == new \o SubSeq(old, Len(new) + 1, Len(old))

\* lines 188-213 of add_coauthor: the ledger is looked for and read, and the
\* co-author looked for in what was read
AddRead(i, p) ==
    LET config_file == get_branch_config_file(branch)
        existing_content == ledger[config_file].content
    IN  /\ Resolved
        /\ adders[i].pc = "idle"
        /\ IF ~ledger[config_file].exists
           THEN /\ last' = Result("add", "NotInitialized")
                /\ UNCHANGED <<adders, torn>>
           ELSE IF Contains(existing_content, Trim(coauthor_line(p)))
           THEN /\ last' = Result("add", "already_exists")
                /\ UNCHANGED <<adders, torn>>
           ELSE /\ adders' = [adders EXCEPT ![i] =
                                 [pc |-> "read", p |-> p,
                                  existing_content |-> existing_content]]
                /\ torn' = (torn \/ OtherWriting(i))
                /\ UNCHANGED last
        /\ UNCHANGED <<hook, prevHook, ledger, prevLedger, branch, roster, arg, named,
                       listed, records, message, rosterFile, repo>>

\* line 218, fs::write, first half: File::create opens the ledger and
\* truncates it
AddCreate(i) ==
    LET config_file == get_branch_config_file(branch)
    IN  /\ adders[i].pc = "read"
        /\ ledger' = [ledger EXCEPT ![config_file] = [exists |-> TRUE, content |-> <<>>]]
        /\ adders' = [adders EXCEPT ![i].pc = "created"]
        /\ torn' = (torn \/ OtherWriting(i))
        /\ UNCHANGED <<hook, prevHook, prevLedger, branch, roster, last, arg, named,
                       listed, records, message, rosterFile, repo>>

\* AddWrite with the new line alone written, in place of new_content
AddWrite_only_new_line(i) ==
    LET config_file == get_branch_config_file(branch)
    IN  /\ adders[i].pc = "created"
        /\ ledger' = [ledger EXCEPT ![config_file].content =
                         write_at_start(@, coauthor_line(adders[i].p))]
        /\ adders' = [adders EXCEPT ![i].pc = "written"]
        /\ UNCHANGED <<hook, prevHook, prevLedger, branch, roster, last, arg, named,
                       listed, records, message, rosterFile, repo, torn>>

\* line 218, fs::write, second half: write_all writes new_content, what was
\* read with the new line at its end (line 216)
AddWrite(i) ==
    LET config_file == get_branch_config_file(branch)
        new_content == adders[i].existing_content \o coauthor_line(adders[i].p)
    IN  /\ adders[i].pc = "created"
        /\ ledger' = [ledger EXCEPT ![config_file].content =
                         write_at_start(@, new_content)]
        /\ adders' = [adders EXCEPT ![i].pc = "written"]
        /\ UNCHANGED <<hook, prevHook, prevLedger, branch, roster, last, arg, named,
                       listed, records, message, rosterFile, repo, torn>>

\* lines 221-225: update_commit_template on the ledger as it is now, and the
\* return
AddHook(i) ==
    LET config_file == get_branch_config_file(branch)
        updated == update_commit_template(ledger[config_file].content, hook)
    IN  /\ FileFits
        /\ adders[i].pc = "written"
        /\ hook' = updated.hook
        /\ repo' = update_hooks_dir(ledger[config_file].content, repo)
        /\ last' = Result("add", IF updated.ok THEN "ok" ELSE "MalformedHook")
        /\ arg' = adders[i].p
        /\ adders' = [adders EXCEPT ![i] = NoAdders[i]]
        /\ UNCHANGED <<prevHook, ledger, prevLedger, branch, roster, named, listed,
                       records, message, rosterFile, torn>>

NextRace ==
    \/ InitPair
    \/ \E i \in Procs, p \in People : AddRead(i, p)
    \/ \E i \in Procs : AddCreate(i)
    \/ \E i \in Procs : AddWrite(i)
    \/ \E i \in Procs : AddHook(i)

SpecRace == InitMatch /\ [][NextRace]_vars

-----------------------------------------------------------------------------
(* Vocabulary of the properties                                            *)

\* one begin marker, one end marker, the begin marker first
OneSection(c) ==
    /\ Count(c, BEGIN_MARKER) = 1
    /\ Count(c, END_MARKER) = 1
    /\ Find(c, BEGIN_MARKER) < Find(c, END_MARKER)

\* a well-formed hook text: no marker at all, or exactly one section
WellFormed(c) == NoMarker(c) \/ OneSection(c)

\* the hook file holds the section: both markers are in it
HasSection(h) ==
    h.exists /\ Contains(h.content, BEGIN_MARKER) /\ Contains(h.content, END_MARKER)

\* the text of a well-formed hook that lies outside the markers
UserText(c) ==
    IF OneSection(c)
    THEN SubSeq(c, 1, Find(c, BEGIN_MARKER) - 1) \o <<NL>>
            \o SubSeq(c, Find(c, END_MARKER) + Len(END_MARKER), Len(c))
    ELSE c

\* its non-blank lines, in order, each without surrounding whitespace
UserLines(c) ==
    LET ls == Lines(UserText(c))
    IN  SelectSeq([k \in 1..Len(ls) |-> Trim(ls[k])], LAMBDA l : l # <<>>)

\* no non-blank text before the section (in a text without section: none at all)
BlankBeforeSection(c) ==
    IF Contains(c, BEGIN_MARKER)
    THEN TrimEnd(SubSeq(c, 1, Find(c, BEGIN_MARKER) - 1)) = <<>>
    ELSE Trim(c) = <<>>

\* the records of the current branch's ledger
CurrentRecords == get_coauthors(ledger[get_branch_config_file(branch)].content)

-----------------------------------------------------------------------------
(* Properties                                                              *)

\* the command that just ran started from a hook file absent or well-formed
StartedWellFormed == ~prevHook.exists \/ WellFormed(prevHook.content)

\* C1 as stated: after any successful add, remove or clear on the current
\* branch, from a hook file absent or well-formed, the hook file holds the
\* section iff the branch's ledger holds a record.  An add that finds its
\* record already there returns Ok too.
C1_SectionIffRecords_AnyAdd ==
    (/\ last.op \in {"add", "remove", "clear"}
     /\ last.result \in {"ok", "already_exists"}
     /\ StartedWellFormed)
        => (HasSection(hook) <=> CurrentRecords # <<>>)

\* C1 amended: after a successful add that appended a record, a successful
\* remove or a successful clear on the current branch, from a hook file absent
\* or well-formed, the hook file holds the section iff the branch's ledger
\* holds a record.
C1_SectionIffRecords ==
    (/\ last.op \in {"add", "remove", "clear"}
     /\ last.result = "ok"
     /\ StartedWellFormed)
        => (HasSection(hook) <=> CurrentRecords # <<>>)

\* C1 witness: the last record was removed and took the section with it
C1_Witness ==
    /\ last = Result("remove", "ok")
    /\ StartedWellFormed
    /\ HasSection(prevHook)
    /\ ~HasSection(hook)
    /\ CurrentRecords = <<>>

\* C2 as stated: install and remove on a well-formed hook file, when they
\* leave a file, leave the non-blank lines outside the markers as they were.
C2_UserLinesUnchanged ==
    (/\ last.op \in {"install", "remove_hook"}
     /\ prevHook.exists /\ WellFormed(prevHook.content)
     /\ hook.exists)
        => UserLines(hook.content) = UserLines(prevHook.content)

\* C2 amended: install and remove on a well-formed hook file, when they leave
\* a file, leave it well-formed and leave the non-blank lines outside the
\* markers as they were, but for one case: an install that finds no non-blank
\* text before the section (in a file without section, none at all) puts the
\* line #!/bin/sh in front of them.
C2_UserLinesKept ==
    (/\ last.op \in {"install", "remove_hook"}
     /\ prevHook.exists /\ WellFormed(prevHook.content)
     /\ hook.exists)
        => /\ WellFormed(hook.content)
           /\ UserLines(hook.content) =
                 IF last.op = "install" /\ BlankBeforeSection(prevHook.content)
                 THEN <<(<<SHEBANG>>)>> \o UserLines(prevHook.content)
                 ELSE UserLines(prevHook.content)

\* C2 witness: a section with user text on both sides was replaced
C2_Witness ==
    /\ last = Result("install", "ok")
    /\ prevHook.exists /\ OneSection(prevHook.content)
    /\ Len(UserLines(prevHook.content)) = 2
    /\ UserLines(hook.content) = UserLines(prevHook.content)
    /\ hook.content # prevHook.content

\* C3: install is idempotent: on the file a successful install left, another
\* install succeeds and leaves exactly the same file.
C3_InstallIdempotent ==
    last = Result("install", "ok")
        => install_git_hook_in(hook) = [ok |-> TRUE, hook |-> hook]

\* C4: an install on a hook file with a begin marker and no end marker fails,
\* merge having returned an error, and the file is as it was.
C4_MalformedInstallWritesNothing ==
    (/\ last.op = "install"
     /\ Contains(prevHook.content, BEGIN_MARKER)
     /\ ~Contains(prevHook.content, END_MARKER))
        => /\ ~merge_git_pair_section(prevHook.content, git_pair_section).ok
           /\ last.result = "MalformedHook"
           /\ hook = prevHook

\* C4 witness: an install failed on user text followed by a begin marker
C4_Witness ==
    /\ last = Result("install", "MalformedHook")
    /\ prevHook.exists
    /\ Contains(prevHook.content, BEGIN_MARKER)
    /\ ~Contains(prevHook.content, END_MARKER)
    /\ Find(prevHook.content, BEGIN_MARKER) > 1

\* the last command was a clear, or a remove of the last record, that got as
\* far as removing the hook, on a hook file with a begin marker and no end
\* marker
RemovedFromMalformed ==
    /\ \/ last.op = "clear" /\ last.result # "NotInitialized"
       \/ /\ last.op = "remove"
          /\ last.result \notin {"NotInitialized", "NotFound"}
          /\ CurrentRecords = <<>>
    /\ Contains(prevHook.content, BEGIN_MARKER)
    /\ ~Contains(prevHook.content, END_MARKER)

\* C5 as stated: on a hook file with a begin marker and no end marker, strip
\* fails with an error of its own, clear and remove-last return a failure, and
\* the file is as it was.
C5_MalformedRemoveFails ==
    RemovedFromMalformed => last.result = "MalformedHook" /\ hook = prevHook

\* What the code does where C5 asks for a failure: on a hook file with a begin
\* marker and no end marker, strip returns nothing, as it does when there is
\* no section, clear and remove-last return success, and the file is as it
\* was.
C5_MalformedRemoveIsNoOp ==
    RemovedFromMalformed
        => /\ ~remove_git_pair_section(prevHook.content).some
           /\ last.result = "ok"
           /\ hook = prevHook

\* a state of that case: the last record was removed while the hook file held a begin
\* marker only
C5_Witness ==
    /\ RemovedFromMalformed
    /\ last = Result("remove", "ok")
    /\ prevHook.exists
    /\ hook = prevHook

\* C6: from a hook file absent or without marker, after any number of
\* successful adds, of new and of already present co-authors, the hook file
\* holds exactly one begin marker and exactly one end marker.
C6_OneSectionAfterAdds ==
    (last.op = "add" /\ last.result \in {"ok", "already_exists"})
        => /\ hook.exists
           /\ Count(hook.content, BEGIN_MARKER) = 1
           /\ Count(hook.content, END_MARKER) = 1

\* C6 witness: a second co-author was added to a hook file that held the
\* section already
C6_Witness ==
    /\ last = Result("add", "ok")
    /\ HasSection(prevHook)
    /\ Len(CurrentRecords) = 2
    /\ Count(hook.content, BEGIN_MARKER) = 1

\* the content install read: the file's, or the empty string for no file
Existing(h) == IF h.exists THEN h.content ELSE <<>>

\* the last command installed the section into a file without any marker
InstalledIntoMarkerFree ==
    last = Result("install", "ok") /\ NoMarker(Existing(prevHook))

\* C7 as stated: for every content e without marker, empty and all-whitespace
\* e included, strip(merge(e, section)) is e but for leading and trailing
\* whitespace.
C7_StripInvertsMerge_EveryContent ==
    InstalledIntoMarkerFree
        => LET stripped == remove_git_pair_section(hook.content)
           IN  stripped.some /\ Trim(stripped.value) = Trim(Existing(prevHook))

\* C7 amended: for every content e without marker that is not empty or
\* all-whitespace, strip(merge(e, section)) is e with its trailing whitespace
\* trimmed; for an empty or all-whitespace e it is the line #!/bin/sh that
\* merge put in front of the section.
C7_StripInvertsMerge ==
    InstalledIntoMarkerFree
        => LET stripped == remove_git_pair_section(hook.content)
           IN  /\ stripped.some
               /\ stripped.value = IF Trim(Existing(prevHook)) = <<>>
                                   THEN <<SHEBANG>>
                                   ELSE TrimEnd(Existing(prevHook))

\* C7 witness: the section was installed after user text that ends in
\* whitespace
C7_Witness ==
    /\ InstalledIntoMarkerFree
    /\ Trim(prevHook.content) # <<>>
    /\ TrimEnd(prevHook.content) # prevHook.content
    /\ remove_git_pair_section(hook.content).value = TrimEnd(prevHook.content)

\* C8: merge on content without begin marker returns, for empty or
\* all-whitespace content, the line #!/bin/sh, one newline and the section,
\* and otherwise the content with trailing whitespace trimmed, two newlines
\* and the section; either way the result ends with the end marker.
C8_AppendMode ==
    (last.op = "install" /\ ~Contains(Existing(prevHook), BEGIN_MARKER))
        => /\ last.result = "ok"
           /\ hook.exists
           /\ hook.content =
                 IF \A i \in 1..Len(Existing(prevHook)) : IsWhitespace(Existing(prevHook)[i])
                 THEN <<SHEBANG, NL>> \o git_pair_section
                 ELSE TrimEnd(Existing(prevHook)) \o <<NL, NL>> \o git_pair_section
           /\ SubSeq(hook.content, Len(hook.content) - Len(END_MARKER) + 1,
                     Len(hook.content)) = END_MARKER

\* C8 witness: the section was appended to user text that ends in a newline
C8_Witness ==
    /\ last = Result("install", "ok")
    /\ prevHook.exists
    /\ ~Contains(prevHook.content, BEGIN_MARKER)
    /\ Trim(prevHook.content) # <<>>
    /\ prevHook.content[Len(prevHook.content)] = NL

\* C9: hook remove succeeds and changes nothing when there is no hook file,
\* which it does not create, and when the hook file holds no begin marker,
\* for which strip returns nothing.
C9_RemoveNoOp ==
    (/\ last.op = "remove_hook"
     /\ ~prevHook.exists \/ ~Contains(prevHook.content, BEGIN_MARKER))
        => /\ last.result = "ok"
           /\ ~remove_git_pair_section(prevHook.content).some
           /\ hook = prevHook

\* C9 witness: hook remove was run on a file that is a bare shebang line
C9_Witness ==
    /\ last = Result("remove_hook", "ok")
    /\ prevHook.exists
    /\ prevHook.content = <<SHEBANG, NL>>
    /\ hook = prevHook

\* the text strip is specified to return for a hook with one section: what
\* precedes the begin marker without trailing whitespace and what follows the
\* end marker without leading whitespace, a newline between them when both
\* are non-empty
Stripped(c) ==
    LET b == TrimEnd(SubSeq(c, 1, Find(c, BEGIN_MARKER) - 1))
        a == TrimStart(SubSeq(c, Find(c, END_MARKER) + Len(END_MARKER), Len(c)))
    IN  IF b # <<>> /\ a # <<>> THEN b \o <<NL>> \o a ELSE b \o a

\* every line is blank or a comment, once trimmed
OnlyBlankAndCommentLines(c) ==
    \A l \in {Lines(c)[k] : k \in 1..Len(Lines(c))} :
        \/ \A i \in 1..Len(l) : IsWhitespace(l[i])
        \/ \E i \in 1..Len(l) :
              /\ StartsWithHash(l[i])
              /\ \A j \in 1..(i - 1) : IsWhitespace(l[j])

\* C10: when hook remove finds a well-formed section, the file is deleted
\* iff what is left after stripping is only blank lines, comment lines or a
\* shebang; otherwise the file is still there, its content is the stripped
\* content, and that holds no marker.
C10_DeleteIffOnlyStub ==
    (last.op = "remove_hook" /\ prevHook.exists /\ OneSection(prevHook.content))
        => /\ last.result = "ok"
           /\ ~hook.exists <=> OnlyBlankAndCommentLines(Stripped(prevHook.content))
           /\ hook.exists =>
                 /\ hook.content = Stripped(prevHook.content)
                 /\ NoMarker(hook.content)
                 /\ hook.exec = prevHook.exec

\* C10 witness: the section was removed from between a shebang line and a
\* line of code, and the file kept
C10_Witness ==
    /\ last = Result("remove_hook", "ok")
    /\ prevHook.exists /\ OneSection(prevHook.content)
    /\ StartsWith(prevHook.content, <<SHEBANG>>)
    /\ hook.exists
    /\ hook.content # prevHook.content

\* C10 second witness: the section was removed and only a comment was left,
\* so the file was deleted
C10_WitnessDeleted ==
    /\ last = Result("remove_hook", "ok")
    /\ prevHook.exists /\ OneSection(prevHook.content)
    /\ Stripped(prevHook.content) # <<>>
    /\ ~hook.exists

\* C11: is_effectively_empty(content) is true iff every line of content, once
\* trimmed, is blank or begins with '#': for the hook file's content after
\* every command, and for what hook remove found left after stripping; it is
\* true for the empty string, for whitespace only and for a bare shebang, and
\* false when one line is neither blank nor a comment.
C11_EffectivelyEmpty ==
    /\ is_effectively_empty(hook.content) <=> OnlyBlankAndCommentLines(hook.content)
    /\ (last.op = "remove_hook" /\ prevHook.exists /\ OneSection(prevHook.content))
          => (is_effectively_empty(Stripped(prevHook.content))
                 <=> OnlyBlankAndCommentLines(Stripped(prevHook.content)))
    /\ is_effectively_empty(<<>>)
    /\ is_effectively_empty(<<SP, SP, NL, SP>>)
    /\ is_effectively_empty(<<SHEBANG>>)
    /\ is_effectively_empty(<<SHEBANG, NL, "#", SP, "x">>)
    /\ ~is_effectively_empty(<<SHEBANG, NL, SP, "x", NL, "#">>)

\* C11 witness: hook remove found an indented comment left after stripping,
\* took it for empty and deleted the file
C11_Witness ==
    /\ last = Result("remove_hook", "ok")
    /\ prevHook.exists /\ OneSection(prevHook.content)
    /\ Stripped(prevHook.content) = <<SP, "#">>
    /\ is_effectively_empty(Stripped(prevHook.content))
    /\ ~hook.exists

\* the ledger file of the current branch
CurrentFile == get_branch_config_file(branch)

\* the records the current branch's ledger held when the last command started
PrevRecords == get_coauthors(prevLedger[CurrentFile].content)

\* a record of s is this line, the whole of it
HasLine(s, line) == \E i \in 1..Len(s) : s[i] = line

\* C12: an add on an initialized branch is a no-op exactly when a record whose
\* line is identical, the whole line, to the new one is already in the ledger:
\* it then reports "already exists" and leaves ledger and hook file as they
\* were; in every other case the record is appended.
C12_DuplicateIffIdenticalLine ==
    (last.op = "add" /\ last.result # "NotInitialized")
        => IF HasLine(PrevRecords, Trim(coauthor_line(arg)))
           THEN /\ last.result = "already_exists"
                /\ ledger = prevLedger
                /\ hook = prevHook
           ELSE /\ last.result # "already_exists"
                /\ ledger[CurrentFile].content =
                      prevLedger[CurrentFile].content \o coauthor_line(arg)

\* the line 'Co-authored-by: <name> <surname> <<email>>' of a co-author
RecordLine(p) ==
    CO_AUTHORED_BY \o <<SP>> \o p.name \o <<SP>> \o p.surname \o <<SP, "<">>
        \o p.email \o <<">">>

\* the ledgers of the other branches are as they were
OtherLedgersUnchanged ==
    \A f \in ConfigFiles \ {CurrentFile} : ledger[f] = prevLedger[f]

\* C13: after a successful add of a new co-author, the ledger is the ledger
\* it was with the line 'Co-authored-by: <name> <surname> <<email>>' appended
\* as its last line, all earlier lines kept in order, and the hook file exists
\* and holds both the begin and the end marker.
C13_AddAppendsLastLine ==
    last = Result("add", "ok")
        => /\ ledger[CurrentFile].exists
           /\ Lines(ledger[CurrentFile].content) =
                 Append(Lines(prevLedger[CurrentFile].content), RecordLine(arg))
           /\ ledger[CurrentFile].content[Len(ledger[CurrentFile].content)] = NL
           /\ OtherLedgersUnchanged
           /\ hook.exists
           /\ Contains(hook.content, BEGIN_MARKER)
           /\ Contains(hook.content, END_MARKER)

\* C13 witness: the first co-author was added on branch f/x, in a repository
\* without hook file
C13_Witness ==
    /\ last = Result("add", "ok")
    /\ branch = <<"f", "/", "x">>
    /\ PrevRecords = <<>>
    /\ CurrentRecords = <<RecordLine(arg)>>
    /\ ~prevHook.exists
    /\ HasSection(hook)

\* the identifier is in the line, whatever the case of the letters
MatchesDirectly(line, identifier) ==
    \E i \in 1..(Len(line) - Len(identifier) + 1) :
        to_lowercase(SubSeq(line, i, i + Len(identifier) - 1)) = to_lowercase(identifier)

\* the identifier is an alias of the roster and the line holds the name or
\* the email the roster gives for it
MatchesAsAlias(line, identifier) ==
    \E k \in 1..Len(roster) :
        /\ roster[k][1] = identifier
        /\ \A j \in 1..(k - 1) : roster[j][1] # identifier
        /\ Contains(line, roster[k][2]) \/ Contains(line, roster[k][3])

\* the two attempts of remove: the records that hold the identifier, and when
\* there is none, the records of the person the identifier is an alias of
Matches(s, line, identifier) ==
    IF \E i \in 1..Len(s) : MatchesDirectly(s[i], identifier)
    THEN MatchesDirectly(line, identifier)
    ELSE MatchesAsAlias(line, identifier)

\* the two header lines of the current branch's ledger
HeaderLines ==
    << <<"# git-pair configuration file for branch '">> \o branch \o <<"'">>,
       <<"# Co-authors will be listed here">> >>

\* C14: a successful remove(identifier) deletes every record that matches the
\* identifier, not only the first, and no record that does not match; the
\* records that remain keep their order, below the two header lines.
C14_RemoveEveryMatch ==
    last = Result("remove", "ok")
        => LET remaining == SelectSeq(PrevRecords,
                                LAMBDA line : ~Matches(PrevRecords, line, arg))
           IN  /\ Len(remaining) < Len(PrevRecords)
               /\ Lines(ledger[CurrentFile].content) = HeaderLines \o remaining
               /\ CurrentRecords = remaining
               /\ OtherLedgersUnchanged

\* C14 witness: of three records the two that hold the identifier were
\* removed, and the third kept
C14_Witness ==
    /\ last = Result("remove", "ok")
    /\ arg = <<"j", "@">>
    /\ Len(PrevRecords) = 3
    /\ Len(CurrentRecords) = 1
    /\ ~MatchesDirectly(CurrentRecords[1], arg)

\* C15: remove(identifier) on an initialized branch fails with a not-found
\* error when no record matches directly and the identifier is not a roster
\* alias whose name or email matches a record; ledger and hook file are then
\* exactly as they were.
C15_RemoveNotFound ==
    (/\ last.op = "remove"
     /\ prevLedger[CurrentFile].exists
     /\ \A i \in 1..Len(PrevRecords) :
           /\ ~MatchesDirectly(PrevRecords[i], arg)
           /\ ~MatchesAsAlias(PrevRecords[i], arg))
        => /\ last.result = "NotFound"
           /\ ledger = prevLedger
           /\ hook = prevHook

\* C15 witness: remove was called with a roster alias while the ledger held
\* a record of somebody else, and the hook file the section
C15_Witness ==
    /\ last = Result("remove", "NotFound")
    /\ arg = <<"j", "j">>
    /\ Len(PrevRecords) = 1
    /\ HasSection(prevHook)
    /\ hook = prevHook
    /\ ledger = prevLedger

\* the hook file held the section, once, and nothing else but blank lines,
\* comments or a shebang when the last command started
HeldOnlySection ==
    /\ prevHook.exists
    /\ OneSection(prevHook.content)
    /\ OnlyBlankAndCommentLines(Stripped(prevHook.content))

\* C16: a successful remove that leaves no record, on a hook file that holds
\* nothing but the generated section, deletes the hook file; a successful
\* remove that leaves a record, on a hook file that holds the section, leaves
\* the hook file present with the content it had before.
C16_RemoveLastDeletesElseUnchanged ==
    last = Result("remove", "ok")
        => /\ (CurrentRecords = <<>> /\ HeldOnlySection) => ~hook.exists
           /\ (CurrentRecords # <<>> /\ prevHook.exists /\ OneSection(prevHook.content))
                 => hook.exists /\ hook.content = prevHook.content

\* What holds of C16: the first half as stated, and the second half for a
\* hook file that holds nothing but the generated section.
C16_RemoveOnSectionOnlyHook ==
    (last = Result("remove", "ok") /\ HeldOnlySection)
        => IF CurrentRecords = <<>>
           THEN ~hook.exists
           ELSE hook.exists /\ hook.content = prevHook.content

\* a state of that case: one of two records was removed and the hook file,
\* shebang and section, is as it was
C16_Witness ==
    /\ last = Result("remove", "ok")
    /\ HeldOnlySection
    /\ Len(PrevRecords) = 2
    /\ Len(CurrentRecords) = 1
    /\ hook = prevHook

\* C17: clear on an initialized branch always leaves the branch's ledger as
\* exactly the two header lines, whatever it held, and always runs hook
\* remove afterwards, also when the ledger held no record: the hook file is
\* what hook remove makes of the file it found, without the section when that
\* held one well-formed section.
C17_ClearResetsAndRemovesHook ==
    (last.op = "clear" /\ prevLedger[CurrentFile].exists)
        => /\ last.result = "ok"
           /\ ledger[CurrentFile].exists
           /\ Lines(ledger[CurrentFile].content) = HeaderLines
           /\ CurrentRecords = <<>>
           /\ OtherLedgersUnchanged
           /\ hook = remove_git_hook_in(prevHook).hook
           /\ (prevHook.exists /\ OneSection(prevHook.content))
                 => (~hook.exists \/ NoMarker(hook.content))

\* C17 witness: clear was run on a ledger without record while the hook file
\* held the section, and took the section out
C17_Witness ==
    /\ last = Result("clear", "ok")
    /\ prevLedger[CurrentFile].exists
    /\ PrevRecords = <<>>
    /\ prevHook.exists /\ OneSection(prevHook.content)
    /\ ~HasSection(hook)

\* C18: list returns exactly the current records of the branch, in insertion
\* order and never a header line: after any sequence of commands it is the
\* sequence of the lines the adds appended, in the order they were appended,
\* without those the removes and clears took out.
C18_ListInsertionOrder ==
    last = Result("list", "ok")
        => /\ listed = records[CurrentFile]
           /\ Lines(ledger[CurrentFile].content) = HeaderLines \o listed
           /\ \A i \in 1..Len(listed) :
                 /\ StartsWith(listed[i], CO_AUTHORED_BY)
                 /\ \E p \in LedgerPeople : listed[i] = RecordLine(p)
           /\ ledger = prevLedger
           /\ hook = prevHook

\* C18 witness: list returned two records, Al Li's, added first, before
\* Jo Li's
C18_Witness ==
    /\ last = Result("list", "ok")
    /\ Len(listed) = 2
    /\ SubSeq(listed[1], 17, 21) = <<"A", "l", " ", "L", "i">>
    /\ SubSeq(listed[2], 17, 21) = <<"J", "o", " ", "L", "i">>

\* C19: add, remove, clear and list on a branch whose ledger file does not
\* exist fail with a not-initialized error that names the branch; no ledger
\* is created and the hook file is neither created nor modified.
C19_NotInitialized ==
    (/\ last.op \in {"add", "remove", "clear", "list"}
     /\ ~prevLedger[CurrentFile].exists)
        => /\ last.result = "NotInitialized"
           /\ named = branch
           /\ listed = <<>>
           /\ ledger = prevLedger
           /\ ~ledger[CurrentFile].exists
           /\ hook = prevHook

\* C19 witness: add was run on branch f/x, never initialized, while the hook
\* file held the section installed from branch m
C19_Witness ==
    /\ last = Result("add", "NotInitialized")
    /\ branch = <<"f", "/", "x">>
    /\ named = <<"f", "/", "x">>
    /\ ~ledger[CurrentFile].exists
    /\ HasSection(hook)
    /\ hook = prevHook

\* C20: init is idempotent: on a branch without ledger it creates a ledger of
\* the two header lines; on an initialized branch it succeeds, reports
\* "already initialized" and leaves the ledger, every record included, as it
\* was.  Either way the other ledgers and the hook file are untouched, and a
\* second init changes nothing.
C20_InitIdempotent ==
    last.op = "init"
        => /\ IF prevLedger[CurrentFile].exists
              THEN /\ last.result = "already_initialized"
                   /\ ledger = prevLedger
              ELSE /\ last.result = "ok"
                   /\ ledger[CurrentFile].exists
                   /\ Lines(ledger[CurrentFile].content) = HeaderLines
           /\ named = branch
           /\ OtherLedgersUnchanged
           /\ hook = prevHook
           /\ ledger[CurrentFile].exists

\* C20 witness: init was run on a branch whose ledger held two records, and
\* left them there
C20_Witness ==
    /\ last = Result("init", "already_initialized")
    /\ Len(PrevRecords) = 2
    /\ CurrentRecords = PrevRecords
    /\ ledger = prevLedger

\* the two header lines of the ledger of branch b
HeaderLinesOf(b) ==
    << <<"# git-pair configuration file for branch '">> \o b \o <<"'">>,
       <<"# Co-authors will be listed here">> >>

\* no line occurs twice in s
PairwiseDistinct(s) == \A i, j \in 1..Len(s) : s[i] = s[j] => i = j

\* C21: in every state reachable by init, add, remove and clear (and list and
\* checkout), a ledger that exists is the two header lines followed only by
\* record lines, no two of them the same, and a ledger that existed when the
\* last command started still exists: no command deletes a ledger.
C21_LedgerShape ==
    \A b \in Branches :
        LET f == get_branch_config_file(b)
            recs == get_coauthors(ledger[f].content)
        IN  /\ ledger[f].exists =>
                  /\ Lines(ledger[f].content) = HeaderLinesOf(b) \o recs
                  /\ PairwiseDistinct(recs)
                  /\ \A i \in 1..Len(recs) : \E p \in LedgerPeople : recs[i] = RecordLine(p)
            /\ prevLedger[f].exists => ledger[f].exists

\* C21 witness: an add of a co-author already in a ledger of three records
\* was run, and the ledger still holds three
C21_Witness ==
    /\ last = Result("add", "already_exists")
    /\ Len(CurrentRecords) = 3
    /\ PairwiseDistinct(CurrentRecords)
    /\ HasLine(CurrentRecords, RecordLine(arg))

\* C22: after a command whose install succeeded (an add of a new record, a
\* remove that left a record) the hook file exists with its execute bits set
\* (exec: owner, group and other, mode 0o755); and in every state reached by
\* init, add, remove, clear and checkouts, a hook file that holds the
\* generated section is executable.
C22_SectionIsExecutable ==
    /\ (\/ last = Result("add", "ok")
        \/ last = Result("remove", "ok") /\ CurrentRecords # <<>>)
          => hook.exists /\ hook.exec
    /\ (hook.exists /\ Contains(hook.content, git_pair_section)) => hook.exec

\* C22 witness: an add installed the section into a user's hook file that
\* was not executable
C22_Witness ==
    /\ last = Result("add", "ok")
    /\ prevHook.exists
    /\ ~prevHook.exec
    /\ Contains(hook.content, git_pair_section)
    /\ hook.exec

\* C23: the generated section resolves the co-authors when it runs.  Run for
\* a commit whose source is empty or "message" and whose message holds no
\* "Co-authored-by:" text, on a branch whose ledger (named with the store's
\* sanitization of '/', '\' and ':') holds a record, it appends to the
\* message an empty line (a newline) and exactly the record lines of that
\* ledger; in every other case, a missing or empty ledger included, the
\* message is as it was.  It changes neither ledger nor hook file, and the
\* section an add installs is the same text whatever the ledger holds.
C23_HookResolvesAtRunTime ==
    /\ last.op = "commit"
          => /\ message =
                   IF /\ arg.source \in {"", "message"}
                      /\ ~Contains(arg.message, CO_AUTHORED_BY)
                      /\ ledger[CurrentFile].exists
                      /\ CurrentRecords # <<>>
                   THEN arg.message \o <<NL>> \o JoinLines(CurrentRecords)
                   ELSE arg.message
             /\ ledger = prevLedger
             /\ hook = prevHook
    /\ last = Result("add", "ok") => Contains(hook.content, git_pair_section)

\* C23 witness: the hook ran for `git commit -m` on branch f/x, whose ledger
\* holds two records, while the ledger of branch m holds other records
C23_Witness ==
    /\ last.op = "commit"
    /\ branch = <<"f", "/", "x">>
    /\ arg.source = "message"
    /\ arg.message = <<"T", NL>>
    /\ Len(CurrentRecords) = 2
    /\ get_coauthors(ledger[<<"m">>].content) # CurrentRecords
    /\ message = <<"T", NL, NL>> \o JoinLines(CurrentRecords)

\* the line 'Co-authored-by: <name> <<email>>' of a roster entry
EntryLine(entry) ==
    CO_AUTHORED_BY \o <<SP>> \o entry[2] \o <<SP, "<">> \o entry[3] \o <<">">>

\* the last command named an alias of the roster that is in no record of the
\* ledger it started from
ByAliasOnly ==
    /\ RosterFind(roster, arg) # <<>>
    /\ \A i \in 1..Len(PrevRecords) : ~MatchesDirectly(PrevRecords[i], arg)

\* C24: remove(alias), the alias matching no record directly and being a
\* roster alias, removes exactly the records of the person the alias resolves
\* to, the record whose name and email are the roster entry's, and leaves
\* every other record in the ledger.
C24_AliasRemovesOnlyThatPerson ==
    (last = Result("remove", "ok") /\ ByAliasOnly)
        => CurrentRecords =
              SelectSeq(PrevRecords,
                        LAMBDA line : line # EntryLine(RosterFind(roster, arg)))

\* what a step of add_coauthor_from_global(alias) does, by the entry the
\* roster holds for the alias: none, the ledger and the hook file stay and the
\* call reports not found; one, and the add succeeds, the ledger gets the
\* entry's line as its last line
AddsEntryLine(alias, entry) ==
    IF entry = <<>>
    THEN /\ last' = Result("add_from_global", "NotFound")
         /\ ledger' = ledger
         /\ hook' = hook
    ELSE last' = Result("add", "ok")
            => /\ Lines(ledger'[CurrentFile].content) =
                     Append(Lines(ledger[CurrentFile].content), EntryLine(entry))
               /\ \A f \in ConfigFiles \ {CurrentFile} : ledger'[f] = ledger[f]

\* the step is add_coauthor_from_global(alias), the roster holding this entry
\* for the alias
AddFromGlobalStep(alias, entry) ==
    /\ last'.op = (IF entry = <<>> THEN "add_from_global" ELSE "add")
    /\ AddFromGlobal(alias)

\* C25: adding a co-author by roster alias appends the record built from that
\* roster entry's name and email to the current branch's ledger; an alias
\* absent from the roster makes the operation fail with a not-found error and
\* leaves ledger and hook file unchanged.
C25_AddByAliasAppendsEntry ==
    [][\A alias \in RosterAliases :
          LET entry == RosterFind(get_global_roster(rosterFile), alias)
          IN  AddFromGlobalStep(alias, entry) => AddsEntryLine(alias, entry)]_vars

\* the same for the aliases the roster does not hold and for those of an
\* entry whose name is two words or more: this part holds
C25_AddByAliasOfFullName ==
    [][\A alias \in RosterAliases :
          LET entry == RosterFind(get_global_roster(rosterFile), alias)
          IN  (/\ entry # <<>> => Len(SplitWhitespace(entry[2])) >= 2
               /\ AddFromGlobalStep(alias, entry))
                 => AddsEntryLine(alias, entry)]_vars

\* the roster holds the alias
InRoster(r, alias) == \E k \in 1..Len(r) : r[k][1] = alias

\* what a step of add_global_coauthor(entry) does: the alias in the roster,
\* it reports "already exists" and the roster file stays; else it succeeds
\* and the listing is the one before with the entry, as given, after it
AddsToRoster(entry) ==
    IF InRoster(get_global_roster(rosterFile), entry[1])
    THEN /\ last'.result = "AlreadyExists"
         /\ rosterFile' = rosterFile
    ELSE /\ last'.result = "ok"
         /\ get_global_roster(rosterFile') =
               Append(get_global_roster(rosterFile), entry)

\* a listing of a roster whose file does not exist is empty
ListsNoFileAsEmpty ==
    (last'.op = "list_global" /\ ListGlobal /\ ~rosterFile.exists) => listed' = <<>>

\* C26: roster aliases are unique: adding an alias that is already in the
\* roster fails with "already exists" and leaves the roster unchanged; adding
\* a new alias succeeds and the roster listing then returns the triple (alias,
\* name, email) exactly as given, after all earlier entries. Listing a roster
\* whose file does not exist returns the empty list.
C26_RosterAddAndList ==
    [][/\ \A entry \in RosterEntries :
             (last'.op = "add_global" /\ AddGlobal(entry)) => AddsToRoster(entry)
       /\ ListsNoFileAsEmpty]_vars

\* the same as long as no name holding the field separator is added: this
\* part holds
C26_RosterAddAndListPlainNames ==
    [][/\ \A entry \in RosterEntries :
             (/\ \A k \in 1..3 : ~Contains(entry[k], <<"|">>)
              /\ last'.op = "add_global"
              /\ AddGlobal(entry)
              /\ \A i \in 1..Len(Lines(rosterFile.content)) :
                    Len(SplitPipe(Lines(rosterFile.content)[i])) <= 3)
                => AddsToRoster(entry)
       /\ ListsNoFileAsEmpty]_vars

\* the step leaves every file and directory as it is
NothingWritten == UNCHANGED <<hook, ledger, repo, rosterFile>>

\* C27: every store operation (init, add, remove, clear, list) run in a
\* directory with no .git directory fails with the "Not in a git repository"
\* error and creates no directory or file.
C27_NoGitDirFailsAndWritesNothing ==
    [][(last'.op \in StoreOps /\ ~repo.git_dir)
          => /\ last'.result = "NotARepository"
             /\ NothingWritten]_vars

\* C27 witness: add was run in a directory without .git where the branch
\* query fails as well; there is no git-pair directory, ledger or hook file
C27_Witness ==
    /\ last = Result("add", "NotARepository")
    /\ ~repo.git_dir
    /\ repo.branch_query = "failed"
    /\ ~repo.git_pair_dir
    /\ ~hook.exists
    /\ \A f \in ConfigFiles : ~ledger[f].exists

\* C28: when the branch name cannot be resolved (the query fails, or returns
\* an empty name as on a detached HEAD), every store operation fails with
\* that error and changes nothing in the file system: no git-pair directory,
\* ledger or hook file is created or changed.
C28_UnresolvedBranchFailsAndWritesNothing ==
    [][(/\ last'.op \in StoreOps
        /\ repo.git_dir
        /\ repo.branch_query # "ok" \/ branch = <<>>)
          => /\ last'.result = (IF repo.branch_query # "ok"
                                THEN "BranchQueryFailed" ELSE "NoBranchName")
             /\ NothingWritten]_vars

\* C28 witness: init was run on a detached HEAD in a repository that never
\* had a git-pair directory, and there is none
C28_Witness ==
    /\ last = Result("init", "NoBranchName")
    /\ repo.git_dir
    /\ repo.branch_query = "ok"
    /\ branch = <<>>
    /\ ~repo.git_pair_dir

\* the text before the first begin marker, without trailing whitespace
BeforeSection(c) == TrimEnd(SubSeq(c, 1, Find(c, BEGIN_MARKER) - 1))

\* the text after the first end marker, without leading whitespace
AfterSection(c) == TrimStart(SubSeq(c, Find(c, END_MARKER) + Len(END_MARKER), Len(c)))

\* the text before the section and a newline if there is such text, the
\* section, a newline and the text after the section if there is such text
Spliced(c) ==
    (IF BeforeSection(c) # <<>> THEN BeforeSection(c) \o <<NL>> ELSE <<>>)
        \o git_pair_section
        \o (IF AfterSection(c) # <<>> THEN <<NL>> \o AfterSection(c) ELSE <<>>)

\* the last command installed the section into a file that holds a begin
\* marker and, after it, an end marker (of each marker the first one)
InstalledBySplice ==
    /\ last = Result("install", "ok")
    /\ prevHook.exists
    /\ Find(prevHook.content, BEGIN_MARKER) # 0
    /\ Find(prevHook.content, END_MARKER) > Find(prevHook.content, BEGIN_MARKER)

\* C29 as stated: merge in splice mode returns exactly the text before the
\* begin marker trimmed of trailing whitespace, followed by one newline only
\* if that text is non-empty; then the section; then, only if the text after
\* the end marker trimmed of leading whitespace is non-empty, one newline and
\* that text. Nothing else is added: no line is prepended when the text
\* before the begin marker is empty.
C29_SpliceExact_NothingPrepended ==
    InstalledBySplice => hook.content = Spliced(prevHook.content)

\* C29 amended: merge in splice mode returns exactly that text, with one
\* addition: when the text before the begin marker is empty or all
\* whitespace, the line #!/bin/sh and a newline are put in front of the
\* section.
C29_SpliceExact ==
    InstalledBySplice
        => hook.content =
              (IF BeforeSection(prevHook.content) = <<>> THEN <<SHEBANG, NL>> ELSE <<>>)
                 \o Spliced(prevHook.content)

\* C29 witness: the section was replaced between user text that ended in
\* whitespace and user text that followed the end marker
C29_Witness ==
    /\ InstalledBySplice
    /\ BeforeSection(prevHook.content) # <<>>
    /\ BeforeSection(prevHook.content) #
          SubSeq(prevHook.content, 1, Find(prevHook.content, BEGIN_MARKER) - 1)
    /\ AfterSection(prevHook.content) # <<>>
    /\ hook.content = Spliced(prevHook.content)

\* the last command called strip on a file with one well-formed section
StrippedWellFormed ==
    /\ last.op = "remove_hook"
    /\ prevHook.exists
    /\ OneSection(prevHook.content)

\* C30: strip on content with a well-formed section returns the text before
\* the begin marker (trailing whitespace trimmed) and the text after the end
\* marker (leading whitespace trimmed), joined by a single newline only when
\* both are non-empty; the result contains neither marker nor any text of the
\* removed section.
C30_StripWellFormed ==
    StrippedWellFormed
        => LET c == prevHook.content
               stripped == remove_git_pair_section(c)
           IN  /\ stripped.some
               /\ stripped.value =
                     IF BeforeSection(c) # <<>> /\ AfterSection(c) # <<>>
                     THEN BeforeSection(c) \o <<NL>> \o AfterSection(c)
                     ELSE BeforeSection(c) \o AfterSection(c)
               /\ NoMarker(stripped.value)
               /\ ~Contains(stripped.value, <<HOOK_COMMENT>>)
               /\ ~Contains(stripped.value, <<HOOK_SCRIPT>>)
               /\ hook.exists => hook.content = stripped.value

\* C30 witness: the generated section was stripped from between two user
\* texts, which are left with one newline between them
C30_Witness ==
    /\ StrippedWellFormed
    /\ Contains(prevHook.content, git_pair_section)
    /\ BeforeSection(prevHook.content) # <<>>
    /\ AfterSection(prevHook.content) # <<>>
    /\ hook.exists
    /\ hook.content =
          BeforeSection(prevHook.content) \o <<NL>> \o AfterSection(prevHook.content)

\* the content holds a begin marker and an end marker, and every end marker
\* lies before the first begin marker
EndOnlyBeforeBegin(c) ==
    /\ Find(c, BEGIN_MARKER) # 0
    /\ Find(c, END_MARKER) # 0
    /\ \A i \in 1..Len(c) :
          SubSeq(c, i, i + Len(END_MARKER) - 1) = END_MARKER
             => i < Find(c, BEGIN_MARKER)

\* C31: the end marker that closes the section is looked for after the begin
\* marker: content whose only end marker occurs before its begin marker is
\* treated as a begin marker with no matching end, merge fails and strip does
\* not modify, so neither returns text that duplicates user content or holds
\* two begin markers.
C31_EndMarkerSoughtAfterBegin ==
    (/\ last.op \in {"install", "remove_hook"}
     /\ prevHook.exists
     /\ EndOnlyBeforeBegin(prevHook.content))
        => /\ hook = prevHook
           /\ last.op = "install" => last.result = "MalformedHook"

\* the identifier is a substring of the line when both are put in lower case
InLowerCase(line, identifier) == Contains(to_lowercase(line), to_lowercase(identifier))

\* the identifier is a substring of the line as both are written
AsWritten(line, identifier) == Contains(line, identifier)

\* the last command was a remove on an initialized branch
RemoveRan == last.op = "remove" /\ last.result # "NotInitialized"

\* C32 as stated: the remove matcher accepts a record if and only if the
\* identifier occurs in the record's line compared case-insensitively; the
\* case-sensitive check never accepts a record the case-insensitive check
\* rejects, so both checks together select the set of the first alone.
C32_MatcherIsCaseInsensitiveCheck ==
    RemoveRan
        => /\ \A k \in 1..Len(PrevRecords) :
                 /\ AsWritten(PrevRecords[k], arg) => InLowerCase(PrevRecords[k], arg)
                 /\ matches_coauthor(PrevRecords[k], arg) <=> InLowerCase(PrevRecords[k], arg)
           /\ CurrentRecords =
                 SelectSeq(PrevRecords, LAMBDA line : ~InLowerCase(line, arg))

\* the text holds no capital sigma
NoSigma(s) == \A i \in 1..Len(s) : s[i] # "SIGMA"

\* C32 amended: the remove matcher accepts a record if and only if the
\* identifier occurs in the record's line either compared in lower case or as
\* written; when neither the line nor the identifier holds a capital sigma,
\* the check as written accepts no record the check in lower case rejects.
C32_MatcherIsEitherCheck ==
    RemoveRan
        => /\ \A k \in 1..Len(PrevRecords) :
                 /\ (NoSigma(PrevRecords[k]) /\ NoSigma(arg) /\ AsWritten(PrevRecords[k], arg))
                       => InLowerCase(PrevRecords[k], arg)
                 /\ matches_coauthor(PrevRecords[k], arg)
                       <=> (InLowerCase(PrevRecords[k], arg) \/ AsWritten(PrevRecords[k], arg))
           /\ CurrentRecords =
                 SelectSeq(PrevRecords,
                           LAMBDA line : ~InLowerCase(line, arg) /\ ~AsWritten(line, arg))

\* C32 witness: a remove with the surname in capitals removed both records,
\* neither of which holds the identifier as written
C32_Witness ==
    /\ last = Result("remove", "ok")
    /\ arg = <<"L", "I">>
    /\ Len(PrevRecords) = 2
    /\ \A k \in 1..2 : ~AsWritten(PrevRecords[k], arg)
    /\ CurrentRecords = <<>>

\* some initialized branch has a record in its ledger
SomeBranchHasRecords ==
    \E f \in ConfigFiles : ledger[f].exists /\ get_coauthors(ledger[f].content) # <<>>

\* C33 as stated: with several branches sharing the one hook file, after any
\* sequence of init, add, remove, clear and branch switches, if at least one
\* initialized branch has a non-empty ledger then the hook file contains the
\* generated section.
C33_SectionWhileAnyBranchHasRecords ==
    SomeBranchHasRecords => HasSection(hook)

\* C33 amended: the section of the shared hook file follows the branch of the
\* last command alone.  It is lost only by a clear or by a remove on a branch
\* whose ledger is then empty, and every successful clear and every
\* successful remove that empties its branch's ledger leaves the hook file
\* without section, whether or not another branch has records.
C33_SectionFollowsLastCommand ==
    /\ (HasSection(prevHook) /\ ~HasSection(hook))
          => (last.op \in {"clear", "remove"} /\ CurrentRecords = <<>>)
    /\ (/\ last.op \in {"clear", "remove"}
        /\ last.result = "ok"
        /\ CurrentRecords = <<>>)
          => ~HasSection(hook)

\* C33 witness: a clear on branch f/x took the section out of the hook file
\* while the ledger of branch m holds a record
C33_Witness ==
    /\ last = Result("clear", "ok")
    /\ branch = <<"f", "/", "x">>
    /\ HasSection(prevHook)
    /\ ~HasSection(hook)
    /\ get_coauthors(ledger[<<"m">>].content) # <<>>

\* the last command was a command of the store that returned Err
StoreCommandFailed ==
    /\ last.op \in {"init", "add", "remove", "clear", "list"}
    /\ last.result \notin {"ok", "already_exists"}

\* C34: a store operation that returns an error leaves the ledger unchanged:
\* in particular when add, remove or clear fails because the hook step fails,
\* the ledger holds the same records as before the call.
C34_ErrorLeavesLedger ==
    StoreCommandFailed => ledger = prevLedger

\* the errors returned before the ledger is written leave it unchanged
C34_EarlyErrorLeavesLedger ==
    (StoreCommandFailed /\ last.result # "MalformedHook") => ledger = prevLedger

\* the last command was an init, add, remove or clear
StoreCommandRan == last.op \in {"init", "add", "remove", "clear"}

\* the ledgers of the branches other than the current one are as they were
\* when the last command started
LedgersOfOthersUnchanged ==
    \A b \in CollidingBranches \ {branch} :
        ledger[get_branch_config_file(b)] = prevLedger[get_branch_config_file(b)]

\* C35: branch isolation: an init, add, remove or clear executed on branch A
\* never creates or changes the ledger of a different branch B; two distinct
\* branch names (for example f/x and f_x) always map to distinct ledger
\* files.
C35_BranchIsolation ==
    StoreCommandRan
        => /\ LedgersOfOthersUnchanged
           /\ \A b \in CollidingBranches \ {branch} :
                 get_branch_config_file(b) # get_branch_config_file(branch)

\* a command leaves the ledger of every branch whose name differs from the
\* current one's after '/', '\' and ':' are replaced by '_': this part holds
C35_IsolationOfDistinctSafeNames ==
    StoreCommandRan
        => \A b \in CollidingBranches :
              safe_branch_name(b) # safe_branch_name(branch)
                 => ledger[get_branch_config_file(b)] =
                       prevLedger[get_branch_config_file(b)]

\* the ledger of branch m, the one the adds under way work on
RaceLedger == ledger[get_branch_config_file(<<"m">>)]

\* no add is between the two halves of its write
NoWriteUnderWay == \A i \in Procs : adders[i].pc # "created"

\* every line is a header line or the record of a co-author, whole
WholeLines(c) ==
    \A k \in 1..Len(Lines(c)) :
        \/ \E j \in 1..2 : Lines(c)[k] = HeaderLinesOf(<<"m">>)[j]
        \/ \E p \in People : Lines(c)[k] = RecordLine(p)

C37_HookBodyIdempotent ==
    last.op = "commit"
        => /\ prepare_commit_msg(arg.source, message, branch, ledger) = message
           /\ message # arg.message
                 => \A commit_source \in CommitSources :
                       prepare_commit_msg(commit_source, message, branch, ledger)
                          = message
           /\ Contains(arg.message, CO_AUTHORED_BY) => message = arg.message

\* C37 witness: the hook ran on the message "T" of a plain commit on a
\* branch with two records and appended them; a second run leaves the
\* message, which holds each record once, alone
C37_Witness ==
    /\ last.op = "commit"
    /\ arg = [source |-> "", message |-> <<"T">>]
    /\ Len(CurrentRecords) = 2
    /\ message = <<"T", NL>> \o JoinLines(CurrentRecords)
    /\ prepare_commit_msg("", message, branch, ledger) = message

====
